---- MODULE Spec2Model ----
(***************************************************************************)
(* Market data aggregation and reputation scoring engine of clawg.         *)
(*                                                                         *)
(* The database tables (agents, logs, agent_tokens, token_snapshots) are   *)
(* the state.  JavaScript numbers are modelled as exact rationals          *)
(* [n |-> numerator, d |-> denominator] kept in lowest terms with d > 0;   *)
(* the rounding error of IEEE doubles is not modelled.  Time is counted in *)
(* whole days for created_at and in ticks for snapshot_at.                 *)
(***************************************************************************)
EXTENDS Integers, Sequences, FiniteSets, TLC

VARIABLES
  now,        \* the clock (Date.now() / NOW())
  agents,     \* table agents: agent id -> row
  logs,       \* table logs: sequence of rows
  tokens,     \* table agent_tokens: set of rows
  snapshots,  \* table token_snapshots: set of rows
  signal,     \* what the last calculateSignalScore call returned
  job,        \* the running call or batch job and its position
  metric,     \* what the last analytics calculation returned
  comments,   \* table comments: set of rows
  reactions,  \* table reactions: set of rows
  ethPriceCache  \* the module variable ethPriceCache of tokens.ts

vars == <<now, agents, logs, tokens, snapshots, signal, job, metric,
         comments, reactions, ethPriceCache>>

(***************************************************************************)
(* Numbers                                                                 *)
(***************************************************************************)
Abs(x) == IF x < 0 THEN -x ELSE x

RECURSIVE GCD(_, _)
GCD(a, b) == IF b = 0 THEN a ELSE GCD(b, a % b)

\* the number n/d (d >= 0), in lowest terms; d = 0 is what a division by
\* zero gives (Infinity, -Infinity or NaN)
Rat(n, d) ==
  IF d = 0 THEN [n |-> IF n > 0 THEN 1 ELSE IF n < 0 THEN -1 ELSE 0, d |-> 0]
  ELSE LET g == GCD(Abs(n), d) IN [n |-> n \div g, d |-> d \div g]

R(x) == [n |-> x, d |-> 1]

RatAdd(a, b) == Rat(a.n * b.d + b.n * a.d, a.d * b.d)
RatSub(a, b) == Rat(a.n * b.d - b.n * a.d, a.d * b.d)
RatMul(a, b) == Rat(a.n * b.n, a.d * b.d)
\* a / b for b >= 0
RatDiv(a, b) == Rat(a.n * b.d, a.d * b.n)
RatLt(a, b) == a.n * b.d < b.n * a.d
RatLe(a, b) == a.n * b.d <= b.n * a.d
\* Math.min, Math.max
MathMin(a, b) == IF RatLe(a, b) THEN a ELSE b
MathMax(a, b) == IF RatLe(a, b) THEN b ELSE a
\* Math.round: the nearest integer, a tie going up
MathRound(a) == R((2 * a.n + a.d) \div (2 * a.d))
\* Math.round(x * 10) / 10
RoundOneDecimal(a) == RatDiv(MathRound(RatMul(a, R(10))), R(10))

(***************************************************************************)
(* Identifiers                                                             *)
(***************************************************************************)
AgentIds == {"a1", "a2"}
\* an id that is in no table
GhostAgent == "ghost"

NoSignal == [agent |-> "none"]
NoJob == [pc |-> "idle"]
NoMetric == [kind |-> "none"]
\* ethPriceCache = null
NoCache == <<>>

(***************************************************************************)
(* Signal score (signal.ts)                                                *)
(***************************************************************************)
RECURSIVE SumQuality(_)
SumQuality(ls) ==
  IF ls = <<>> THEN R(0) ELSE RatAdd(Head(ls).quality_score, SumQuality(Tail(ls)))

\* the agent's logs created in the trailing 90 days
BuildLogs(agentId) ==
  LET InWindow(l) == l.agent_id = agentId /\ l.created_at >= now - 90
  IN SelectSeq(logs, InWindow)

calculateBuildScore(agentId) ==
  LET ls == BuildLogs(agentId)
      countScore == MathMin(RatMul(Rat(Len(ls), 20), R(10)), R(10))
      Recent(l) == l.created_at > now - 7
      recentLogs == SelectSeq(ls, Recent)
      recencyScore == MathMin(RatMul(Rat(Len(recentLogs), 5), R(10)), R(10))
      avgQuality == RatDiv(SumQuality(ls), R(Len(ls)))
      qualityScore == RatMul(RatDiv(avgQuality, R(100)), R(10))
  IN IF Len(ls) = 0 THEN R(0)
     ELSE RoundOneDecimal(RatAdd(RatAdd(countScore, recencyScore), qualityScore))

\* the rows .order('is_primary', desc).limit(1) can return: a primary token
\* of the agent when it has one, else any token of the agent
PrimaryCandidates(agentId) ==
  LET mine == {t \in tokens : t.agent_id = agentId}
      prim == {t \in mine : t.is_primary}
  IN IF prim # {} THEN prim ELSE mine

\* the rows .order('snapshot_at', desc).limit(1) can return
LatestSnapshots(tokenId) ==
  LET mine == {s \in snapshots : s.token_id = tokenId}
  IN {s \in mine : \A o \in mine : o.snapshot_at <= s.snapshot_at}

\* mcapTier with the limits taken inclusively
mcapTierInclusive(mcap) ==
  IF mcap >= 100000000 THEN 15
  ELSE IF mcap >= 10000000 THEN 12
  ELSE IF mcap >= 1000000 THEN 9
  ELSE IF mcap >= 100000 THEN 6
  ELSE IF mcap >= 10000 THEN 3
  ELSE IF mcap >= 1000 THEN 1
  ELSE 0

mcapTier(mcap) ==
  IF mcap > 100000000 THEN 15
  ELSE IF mcap > 10000000 THEN 12
  ELSE IF mcap > 1000000 THEN 9
  ELSE IF mcap > 100000 THEN 6
  ELSE IF mcap > 10000 THEN 3
  ELSE IF mcap > 1000 THEN 1
  ELSE 0

\* lines 102-124: the score of one snapshot row
snapshotScore(snap) ==
  LET mcapScore == R(mcapTier(snap.market_cap))
      holderScore == MathMin(RatMul(Rat(snap.holders, 1000), R(7)), R(7))
      liquidityScore == MathMin(RatMul(Rat(snap.liquidity, 100000), R(5)), R(5))
      volumeScore == MathMin(RatMul(Rat(snap.volume_24h, 50000), R(3)), R(3))
  IN RoundOneDecimal(
       RatAdd(RatAdd(RatAdd(mcapScore, holderScore), liquidityScore), volumeScore))

\* the values calculateTokenScore can return (one unless the queries' ties
\* leave the row open)
calculateTokenScore(agentId) ==
  IF PrimaryCandidates(agentId) = {} THEN {R(0)}
  ELSE UNION {
         IF LatestSnapshots(t.id) = {} THEN {R(0)}
         ELSE {snapshotScore(s) : s \in LatestSnapshots(t.id)}
         : t \in PrimaryCandidates(agentId)}

\* calculateSocialScore with the growth trend at full credit from +100
calculateSocialScoreSlowGrowth(agentId) ==
  IF agentId \notin DOMAIN agents THEN R(0)
  ELSE
    LET agent == agents[agentId]
        engagementScore ==
          MathMin(RatMul(RatDiv(agent.engagement_rate, Rat(5, 100)), R(12)), R(12))
        audienceScore == RatMul(RatDiv(agent.audience_score, R(100)), R(10))
        growthScore ==
          MathMax(R(0), MathMin(RatMul(RatDiv(agent.growth_trend, R(100)), R(8)), R(8)))
    IN RoundOneDecimal(RatAdd(RatAdd(engagementScore, audienceScore), growthScore))

calculateSocialScore(agentId) ==
  IF agentId \notin DOMAIN agents THEN R(0)
  ELSE
    LET agent == agents[agentId]
        engagementScore ==
          MathMin(RatMul(RatDiv(agent.engagement_rate, Rat(5, 100)), R(12)), R(12))
        audienceScore == RatMul(RatDiv(agent.audience_score, R(100)), R(10))
        growthScore ==
          MathMax(R(0), MathMin(RatMul(RatDiv(agent.growth_trend, R(50)), R(8)), R(8)))
    IN RoundOneDecimal(RatAdd(RatAdd(engagementScore, audienceScore), growthScore))

calculateVerificationBonus(agentId) ==
  IF agentId \notin DOMAIN agents THEN R(0)
  ELSE
    LET agent == agents[agentId]
        bonus == (IF agent.erc8004_agent_id THEN 5 ELSE 0)
               + (IF agent.twitter THEN 2 ELSE 0)
               + (IF agent.linked_github THEN 2 ELSE 0)
               + (IF agent.website THEN 1 ELSE 0)
    IN MathMin(R(bonus), R(10))

\* lines 31-36, given the four components
composeSignal(agentId, buildScore, tokenScore, socialScore, verificationBonus) ==
  LET score == MathMin(
        RatAdd(RatAdd(RatAdd(buildScore, tokenScore), socialScore), verificationBonus),
        R(100))
  IN [agent |-> agentId,
      score |-> RoundOneDecimal(score),
      components |-> [buildScore |-> buildScore, tokenScore |-> tokenScore,
                      socialScore |-> socialScore,
                      verificationBonus |-> verificationBonus]]

\* the values calculateSignalScore can return
calculateSignalScore(agentId) ==
  {composeSignal(agentId, calculateBuildScore(agentId), ts,
                 calculateSocialScore(agentId), calculateVerificationBonus(agentId))
     : ts \in calculateTokenScore(agentId)}

(***************************************************************************)
(* Rows                                                                    *)
(***************************************************************************)
LogRow(agentId, createdAt, quality, impressions, fire, ship, claw, brain, bug, commentCount) ==
  [agent_id |-> agentId, created_at |-> createdAt, quality_score |-> quality,
   impressions |-> impressions, reaction_fire |-> fire, reaction_ship |-> ship,
   reaction_claw |-> claw, reaction_brain |-> brain, reaction_bug |-> bug,
   comment_count |-> commentCount]

AgentRow(erc, twitter, github, website, rate, trend, audience) ==
  [erc8004_agent_id |-> erc, twitter |-> twitter, linked_github |-> github,
   website |-> website, engagement_rate |-> rate, growth_trend |-> trend,
   audience_score |-> audience, signal_score |-> R(0),
   total_reactions |-> 0, total_comments |-> 0]

\* dex: the dexType of the token's KNOWN_POOLS entry, "none" without one
TokenRow(id, agentId, primary, dex) ==
  [id |-> id, agent_id |-> agentId, is_primary |-> primary, dex |-> dex]

SnapshotRow(tokenId, at, price, mcap, holders, volume, liquidity, change) ==
  [token_id |-> tokenId, snapshot_at |-> at, price_usd |-> price,
   market_cap |-> mcap, holders |-> holders, volume_24h |-> volume,
   liquidity |-> liquidity, price_change_24h |-> change]

(***************************************************************************)
(* Specification SpecSignal: calculateSignalScore over stored rows.  The   *)
(* columns are DECIMAL / INTEGER without CHECK constraints, so the stored  *)
(* samples include values below and above what the batch jobs write.       *)
(***************************************************************************)
\* <<p, q>>: p = <<logs older than 90 days, logs of the 90-day window older
\* than 7 days, logs of the last 7 days>>, q = <<quality_score of the older
\* logs, quality_score of the recent logs>>
LogSamples ==
  {<<<<0, 0, 0>>, <<0, 0>>>>, <<<<1, 0, 0>>, <<80, 80>>>>,
   <<<<0, 1, 0>>, <<80, 80>>>>, <<<<0, 1, 0>>, <<-100, -100>>>>,
   <<<<0, 0, 1>>, <<55, 72>>>>, <<<<0, 0, 1>>, <<500, 500>>>>,
   <<<<1, 15, 5>>, <<80, 80>>>>, <<<<1, 15, 5>>, <<100, 40>>>>,
   <<<<0, 30, 8>>, <<100, 100>>>>, <<<<0, 30, 8>>, <<55, 72>>>>,
   <<<<0, 30, 8>>, <<500, 500>>>>}

\* the i-th of the agent's sample logs: created_at sits on both sides of the
\* 90-day and the 7-day limits
SampleLog(agentId, i, p, q) ==
  IF i <= p[1]
    THEN LogRow(agentId, now - 91, R(100), 0, 0, 0, 0, 0, 0, 0)
  ELSE IF i <= p[1] + p[2]
    THEN LogRow(agentId, now - (IF i % 2 = 0 THEN 90 ELSE 7), R(q[1]),
                0, 0, 0, 0, 0, 0, 0)
  ELSE LogRow(agentId, now - (IF i % 2 = 0 THEN 6 ELSE 0), R(q[2]),
              0, 0, 0, 0, 0, 0, 0)

SampleLogs(agentId, p, q) ==
  [i \in 1..(p[1] + p[2] + p[3]) |-> SampleLog(agentId, i, p, q)]

\* <<erc8004_agent_id, twitter, linked_github, website>> is set
IdentityProfiles ==
  {<<FALSE, FALSE, FALSE, FALSE>>, <<TRUE, FALSE, FALSE, FALSE>>,
   <<TRUE, TRUE, FALSE, FALSE>>, <<TRUE, TRUE, TRUE, TRUE>>,
   <<FALSE, TRUE, TRUE, TRUE>>}

\* <<engagement_rate, audience_score, growth_trend>> as stored
SocialSamples ==
  {<<R(0), R(0), R(0)>>, <<Rat(6, 100), R(40), R(30)>>,
   <<Rat(3, 100), R(40), R(-30)>>, <<Rat(1, 1000), R(7), R(3)>>,
   <<Rat(6, 100), R(150), R(80)>>, <<R(0), R(150), R(0)>>,
   <<Rat(-1, 100), R(0), R(-30)>>, <<R(0), R(-50), R(0)>>}

McapSamples ==
  {0, 999, 1000, 1001, 10000, 10001, 100000, 100001, 1000000, 1000001,
   5000000, 10000000, 10000001, 100000000, 100000001}

\* <<holders, liquidity, volume_24h>>
DepthSamples ==
  {<<0, 0, 0>>, <<2000, 0, 0>>, <<500, 50000, 10000>>, <<999, 33000, 49000>>,
   <<1500, 200000, 60000>>, <<-200, 0, 0>>,
   <<2000, 50000, 10000>>}

\* <<market_cap, holders, liquidity, volume_24h>> of the latest snapshot
SnapSamples ==
  {<<m, 2000, 0, 0>> : m \in McapSamples}
    \cup {<<5000000, d[1], d[2], d[3]>> : d \in DepthSamples}

\* which tokens agent a1 has: none, a primary token without snapshots, a
\* primary token with snapshots, or a non-primary token only
TokenProfiles == {"none", "nosnap", "snap", "secondary"}

\* rows of the other agent and of a1's other tokens, the same in every state
OtherLogs == <<LogRow("a2", now - 1, R(100), 0, 0, 0, 0, 0, 0, 0)>>
OtherAgent == AgentRow(TRUE, TRUE, TRUE, TRUE, Rat(1, 10), R(50), R(100))
OtherTokens == {TokenRow("t3", "a2", TRUE, "none")}
OtherSnapshots == {SnapshotRow("t3", 5, 9, 200000000, 5000, 90000, 900000, 1)}

SampleTokens(tp) ==
  OtherTokens \cup
    (CASE tp = "none" -> {}
       [] tp = "nosnap" -> {TokenRow("t1", "a1", TRUE, "uniswap_v4")}
       [] tp = "snap" -> {TokenRow("t1", "a1", TRUE, "uniswap_v4"),
             TokenRow("t2", "a1", FALSE, "none")}
       [] tp = "secondary" -> {TokenRow("t2", "a1", FALSE, "none")})

SampleSnapshots(tp, s) ==
  OtherSnapshots \cup
    (CASE tp = "none" -> {}
       [] tp = "nosnap" -> {}
       [] tp = "snap" ->
            {SnapshotRow("t1", 3, 7, 300000000, 9000, 80000, 700000, 0),
             SnapshotRow("t1", 8, 1, s[1], s[2], s[4], s[3], 0),
             SnapshotRow("t2", 9, 7, 300000000, 9000, 80000, 700000, 0)}
       [] tp = "secondary" -> {SnapshotRow("t2", 8, 1, s[1], s[2], s[4], s[3], 0)})

InitSignal ==
  /\ now = 200
  /\ \E l \in LogSamples :
       logs = SampleLogs("a1", l[1], l[2]) \o OtherLogs
  /\ \E id \in IdentityProfiles, so \in SocialSamples :
       agents = [x \in AgentIds |->
                   IF x = "a1"
                     THEN AgentRow(id[1], id[2], id[3], id[4], so[1], so[3], so[2])
                   ELSE OtherAgent]
  /\ \E tp \in TokenProfiles :
       \E s \in (IF tp = "snap" THEN SnapSamples
                 ELSE IF tp = "secondary" THEN {<<5000000, 500, 50000, 10000>>}
                 ELSE {<<0, 0, 0, 0>>}) :
         /\ tokens = SampleTokens(tp)
         /\ snapshots = SampleSnapshots(tp, s)
  /\ signal = NoSignal
  /\ job = NoJob
  /\ metric = NoMetric
  /\ comments = {}
  /\ reactions = {}
  /\ ethPriceCache = NoCache

\* one call of calculateSignalScore(env, agentId)
CalculateSignalScore(agentId) ==
  /\ signal' \in calculateSignalScore(agentId)
  /\ UNCHANGED <<now, agents, logs, tokens, snapshots, job, metric,
               comments, reactions, ethPriceCache>>

NextSignal == \E agentId \in AgentIds \cup {GhostAgent} : CalculateSignalScore(agentId)

SpecSignal == InitSignal /\ [][NextSignal]_vars

(***************************************************************************)
(* Token data fetching and snapshots (tokens.ts)                           *)
(***************************************************************************)
Fields == {"priceUsd", "marketCap", "holders", "volume24h", "liquidity", "priceChange24h"}

\* Partial<TokenData>: a function on the fields the adapter returned
NoData == [f \in {} |-> 0]

TokenData(price, mcap, holders, volume, liquidity, change) ==
  [priceUsd |-> price, marketCap |-> mcap, holders |-> holders,
   volume24h |-> volume, liquidity |-> liquidity, priceChange24h |-> change]

\* r.f: <<value>>, or <<>> for undefined
Get(r, f) == IF f \in DOMAIN r THEN <<r[f]>> ELSE <<>>

\* best(a, b), undefined being <<>>
best(a, b) ==
  IF Len(a) = 1 /\ a[1] # 0 /\ a[1] > 0 THEN a[1]
  ELSE IF Len(b) = 1 /\ b[1] # 0 /\ b[1] > 0 THEN b[1]
  ELSE 0

\* the body of the merge loop with the 24h change taken only when positive
mergeStepPositiveChange(merged, r) ==
  [priceUsd |-> best(<<merged.priceUsd>>, Get(r, "priceUsd")),
   marketCap |-> best(<<merged.marketCap>>, Get(r, "marketCap")),
   holders |-> best(<<merged.holders>>, Get(r, "holders")),
   volume24h |-> best(<<merged.volume24h>>, Get(r, "volume24h")),
   liquidity |-> best(<<merged.liquidity>>, Get(r, "liquidity")),
   priceChange24h |->
     IF merged.priceChange24h = 0 /\ "priceChange24h" \in DOMAIN r
          /\ r.priceChange24h > 0
       THEN r.priceChange24h ELSE merged.priceChange24h]

\* the body of the merge loop, lines 515-522
mergeStep(merged, r) ==
  [priceUsd |-> best(<<merged.priceUsd>>, Get(r, "priceUsd")),
   marketCap |-> best(<<merged.marketCap>>, Get(r, "marketCap")),
   holders |-> best(<<merged.holders>>, Get(r, "holders")),
   volume24h |-> best(<<merged.volume24h>>, Get(r, "volume24h")),
   liquidity |-> best(<<merged.liquidity>>, Get(r, "liquidity")),
   priceChange24h |->
     IF merged.priceChange24h = 0 /\ "priceChange24h" \in DOMAIN r
          /\ r.priceChange24h # 0
       THEN r.priceChange24h ELSE merged.priceChange24h]

RECURSIVE mergeLoop(_, _)
mergeLoop(merged, results) ==
  IF results = <<>> THEN merged
  ELSE mergeLoop(mergeStep(merged, Head(results)), Tail(results))

\* lines 505-525
mergeResults(results) == mergeLoop(TokenData(0, 0, 0, 0, 0, 0), results)

\* the calls of batch1, in the order they are pushed
batch1Calls(token) ==
  IF token.dex = "uniswap_v4" THEN <<"v4", "pools">> ELSE <<"pools">>

\* batch 1's results taken in the order the calls settled
batch1ResultsAsSettled(j) ==
  [i \in 1..Len(j.order) |-> j.settled[j.order[i]]]

\* await Promise.all(batch1): the results in the order of the calls
batch1Results(j) ==
  LET calls == batch1Calls(j.token)
  IN [i \in 1..Len(calls) |-> j.settled[calls[i]]]

\* the carry-forward query with the oldest row first
lastPositiveHoldersAscending(tokenId) ==
  LET rows == {s \in snapshots : s.token_id = tokenId /\ s.holders > 0}
  IN {s.holders : s \in {x \in rows : \A o \in rows : x.snapshot_at <= o.snapshot_at}}

\* lines 556-562: the holders of the rows the query can return (none or one)
lastPositiveHolders(tokenId) ==
  LET rows == {s \in snapshots : s.token_id = tokenId /\ s.holders > 0}
  IN {s.holders : s \in {x \in rows : \A o \in rows : o.snapshot_at <= x.snapshot_at}}

\* a carry-forward that fills every zero field from the token's latest row
carryForwardEveryField(data, tokenId) ==
  LET rows == LatestSnapshots(tokenId)
      Fill(v, old) == IF v = 0 THEN old ELSE v
  IN IF rows = {} THEN {data}
     ELSE {[data EXCEPT !.holders = Fill(@, s.holders),
                        !.priceUsd = Fill(@, s.price_usd),
                        !.marketCap = Fill(@, s.market_cap),
                        !.volume24h = Fill(@, s.volume_24h),
                        !.liquidity = Fill(@, s.liquidity)] : s \in rows}

\* lines 555-564: the values data can have after the carry-forward
carryForward(data, tokenId) ==
  IF lastPositiveHolders(tokenId) = {} THEN {data}
  ELSE {[data EXCEPT !.holders = h] : h \in lastPositiveHolders(tokenId)}

(***************************************************************************)
(* Specification SpecTokens: recordTokenSnapshot calls, one at a time, as  *)
(* the refresh job issues them.  The store starts empty and is filled by   *)
(* the calls.                                                              *)
(***************************************************************************)
\* the most snapshot rows the store holds
MaxSnapshots == 3

\* what fetchFromUniswapV4 can resolve to, NoData being the caught failure
V4Outcomes == {NoData, TokenData(2, 2000000, 0, 0, 0, 0)}

\* what fetchGeckoPoolData can resolve to
PoolsOutcomes ==
  {NoData,
   [priceUsd |-> 3, marketCap |-> 3000000, volume24h |-> 10000,
    liquidity |-> 50000, priceChange24h |-> -5],
   [priceUsd |-> 0, marketCap |-> 0, volume24h |-> 10000,
    liquidity |-> 50000, priceChange24h |-> 0]}

\* what fetchGeckoHolderData can resolve to
HolderOutcomes == {[holders |-> 0], [holders |-> 500], [holders |-> 700]}

InitTokens ==
  /\ now = 1
  /\ agents = [x \in AgentIds |-> OtherAgent]
  /\ logs = <<>>
  /\ tokens = {TokenRow("t1", "a1", TRUE, "uniswap_v4"),
               TokenRow("t2", "a1", FALSE, "raydium_launchlab")}
  /\ snapshots = {}
  /\ signal = NoSignal
  /\ job = NoJob
  /\ metric = NoMetric
  /\ comments = {}
  /\ reactions = {}
  /\ ethPriceCache = NoCache

\* recordTokenSnapshot is called for a token; fetchTokenData starts batch 1
RecordStart(token) ==
  /\ job.pc \in {"idle", "done"}
  /\ Cardinality(snapshots) < MaxSnapshots
  /\ job' = [pc |-> "batch1", token |-> token, order |-> <<>>,
             settled |-> [c \in {} |-> NoData]]
  /\ UNCHANGED <<now, agents, logs, tokens, snapshots, signal, metric,
               comments, reactions, ethPriceCache>>

\* one call of batch 1 settles with result r; when it is the last one,
\* Promise.all resolves and the results are pushed
Batch1Settles(call, r) ==
  /\ job.pc = "batch1"
  /\ call \notin DOMAIN job.settled
  /\ LET settled == [c \in DOMAIN job.settled \cup {call} |->
                       IF c = call THEN r ELSE job.settled[c]]
         j == [job EXCEPT !.settled = settled, !.order = Append(@, call)]
     IN job' =
          IF Len(j.order) = Len(batch1Calls(job.token))
            THEN [pc |-> "stagger", token |-> j.token, order |-> j.order,
                  settled |-> j.settled, results |-> batch1Results(j)]
          ELSE j
  /\ UNCHANGED <<now, agents, logs, tokens, snapshots, signal, metric,
               comments, reactions, ethPriceCache>>

V4Settles ==
  /\ job.pc = "batch1" /\ job.token.dex = "uniswap_v4"
  /\ \E r \in V4Outcomes : Batch1Settles("v4", r)

PoolsSettles ==
  /\ job.pc = "batch1"
  /\ \E r \in PoolsOutcomes : Batch1Settles("pools", r)

\* after the 1 s delay fetchGeckoHolderData settles; fetchTokenData merges
\* and returns, and recordTokenSnapshot tests data.holders
HoldersSettles ==
  /\ job.pc = "stagger"
  /\ \E r \in HolderOutcomes :
       LET results == Append(job.results, r)
           merged == mergeResults(results)
       IN job' = [pc |-> IF merged.holders = 0 THEN "carry" ELSE "insert",
                  token |-> job.token, order |-> job.order,
                  settled |-> [c \in DOMAIN job.settled \cup {"holders"} |->
                                 IF c = "holders" THEN r ELSE job.settled[c]],
                  results |-> results, merged |-> merged, data |-> merged]
  /\ UNCHANGED <<now, agents, logs, tokens, snapshots, signal, metric,
               comments, reactions, ethPriceCache>>

\* the query for the last positive holder count returns
CarryForward ==
  /\ job.pc = "carry"
  /\ \E d \in carryForward(job.data, job.token.id) :
       job' = [job EXCEPT !.pc = "insert", !.data = d]
  /\ UNCHANGED <<now, agents, logs, tokens, snapshots, signal, metric,
               comments, reactions, ethPriceCache>>

\* the insert into token_snapshots; snapshot_at is the insert's time
InsertSnapshot ==
  /\ job.pc = "insert"
  /\ LET row == SnapshotRow(job.token.id, now, job.data.priceUsd,
                            job.data.marketCap, job.data.holders,
                            job.data.volume24h, job.data.liquidity,
                            job.data.priceChange24h)
     IN /\ snapshots' = snapshots \cup {row}
        /\ job' = [pc |-> "done", token |-> job.token, order |-> job.order,
                   settled |-> job.settled, results |-> job.results,
                   merged |-> job.merged, data |-> job.data, inserted |-> row]
  /\ now' = now + 1
  /\ UNCHANGED <<agents, logs, tokens, signal, metric,
               comments, reactions, ethPriceCache>>

NextTokens ==
  \/ \E token \in tokens : RecordStart(token)
  \/ V4Settles
  \/ PoolsSettles
  \/ HoldersSettles
  \/ CarryForward
  \/ InsertSnapshot

SpecTokens == InitTokens /\ [][NextTokens]_vars

(***************************************************************************)
(* Engagement analytics (analytics engine and log helpers)                 *)
(***************************************************************************)
\* getTotalReactions
getTotalReactions(log) ==
  log.reaction_fire + log.reaction_ship + log.reaction_claw
    + log.reaction_brain + log.reaction_bug

\* the per-post rate without the test for zero impressions
calculateLogEngagementRateUnguarded(log) ==
  RatDiv(R(getTotalReactions(log) + log.comment_count), R(log.impressions))

\* calculateLogEngagementRate of the analytics engine
calculateLogEngagementRate(log) ==
  IF log.impressions = 0 THEN R(0)
  ELSE RatDiv(R(getTotalReactions(log) + log.comment_count), R(log.impressions))

\* calculateEngagementRate of the log helpers
calculateEngagementRate(log) ==
  IF log.impressions = 0 THEN R(0)
  ELSE LET totalEngagement == getTotalReactions(log) + log.comment_count
       IN RatDiv(R(totalEngagement), R(log.impressions))

RECURSIVE totalImpressions(_)
totalImpressions(ls) ==
  IF ls = <<>> THEN 0 ELSE Head(ls).impressions + totalImpressions(Tail(ls))

RECURSIVE totalEngagement(_)
totalEngagement(ls) ==
  IF ls = <<>> THEN 0
  ELSE getTotalReactions(Head(ls)) + Head(ls).comment_count + totalEngagement(Tail(ls))

\* lines 53-67 and calcRate, lines 103-118: the rate of a list of rows
calcRate(ls) ==
  IF Len(ls) = 0 THEN R(0)
  ELSE IF totalImpressions(ls) > 0
    THEN RatDiv(R(totalEngagement(ls)), R(totalImpressions(ls)))
  ELSE R(0)

RECURSIVE sumOfRates(_)
sumOfRates(ls) ==
  IF ls = <<>> THEN R(0)
  ELSE RatAdd(calculateLogEngagementRate(Head(ls)), sumOfRates(Tail(ls)))

\* the agent's rate as the mean of its posts' rates
calculateAgentEngagementRateAsMean(agentId) ==
  LET Mine(l) == l.agent_id = agentId
      data == SelectSeq(logs, Mine)
  IN IF Len(data) = 0 THEN R(0) ELSE RatDiv(sumOfRates(data), R(Len(data)))

calculateAgentEngagementRate(agentId) ==
  LET Mine(l) == l.agent_id = agentId
  IN calcRate(SelectSeq(logs, Mine))

\* lines 96-101 without the upper limit of the previous period
prevLogsOpenEnded(agentId, periodDays) ==
  LET prevPeriodStart == (now - periodDays) - periodDays
      InPrev(l) == l.agent_id = agentId /\ l.created_at >= prevPeriodStart
  IN SelectSeq(logs, InPrev)

\* lines 89-93: the logs of the current period
currentLogs(agentId, periodDays) ==
  LET periodStart == now - periodDays
      InCurrent(l) == l.agent_id = agentId /\ l.created_at >= periodStart
  IN SelectSeq(logs, InCurrent)

\* lines 96-101: the logs of the previous period
prevLogs(agentId, periodDays) ==
  LET periodStart == now - periodDays
      prevPeriodStart == periodStart - periodDays
      InPrev(l) == /\ l.agent_id = agentId
                   /\ l.created_at >= prevPeriodStart
                   /\ l.created_at < periodStart
  IN SelectSeq(logs, InPrev)

calculateGrowthTrend(agentId, periodDays) ==
  LET currentRate == calcRate(currentLogs(agentId, periodDays))
      prevRate == calcRate(prevLogs(agentId, periodDays))
  IN IF prevRate = R(0)
       THEN (IF RatLt(R(0), currentRate) THEN R(100) ELSE R(0))
     ELSE RatMul(RatDiv(RatSub(currentRate, prevRate), prevRate), R(100))

(***************************************************************************)
(* Specification SpecAnalytics: the engagement calculations over stored    *)
(* logs.  The counters start non-negative, as the SQL functions that       *)
(* decrement them keep them (GREATEST(0, ...)); created_at is never after  *)
(* the clock (DEFAULT NOW()).                                              *)
(***************************************************************************)
\* the most logs agent a1 has
MaxLogs == 3

\* <<impressions, fire, ship, claw, brain, bug, comment_count>>
Quiet == <<0, 0, 0, 0, 0, 0, 0>>
Unseen == <<0, 1, 0, 0, 0, 0, 1>>
Busy == <<10, 1, 1, 0, 0, 0, 1>>
Loud == <<2, 0, 0, 1, 1, 1, 0>>
Ignored == <<4, 0, 0, 0, 0, 0, 0>>
Debated == <<5, 0, 0, 0, 0, 1, 2>>

\* <<counters, age of the log in days>>
PostSamples ==
  {<<Quiet, 0>>, <<Unseen, 3>>, <<Busy, 0>>, <<Busy, 8>>, <<Loud, 7>>,
   <<Loud, 14>>, <<Ignored, 0>>, <<Ignored, 8>>, <<Debated, 15>>, <<Debated, 3>>}

\* the values of periodDays
PeriodSamples == {7, 2}

PostRow(agentId, p) ==
  LogRow(agentId, now - p[2], R(0), p[1][1], p[1][2], p[1][3], p[1][4],
         p[1][5], p[1][6], p[1][7])

InitAnalytics ==
  /\ now = 100
  /\ agents = [x \in AgentIds |-> OtherAgent]
  /\ \E k \in 0..MaxLogs :
       \E ps \in [1..k -> PostSamples] :
         logs = [i \in 1..k |-> PostRow("a1", ps[i])]
                  \o <<PostRow("a2", <<Debated, 1>>)>>
  /\ tokens = {}
  /\ snapshots = {}
  /\ signal = NoSignal
  /\ job = NoJob
  /\ metric = NoMetric
  /\ comments = {}
  /\ reactions = {}
  /\ ethPriceCache = NoCache

\* calculateLogEngagementRate(log) for the i-th log
CalculateLogEngagementRate(i) ==
  /\ metric' = [kind |-> "log", fn |-> "calculateLogEngagementRate", log |-> i,
                value |-> calculateLogEngagementRate(logs[i])]
  /\ UNCHANGED <<now, agents, logs, tokens, snapshots, signal, job,
               comments, reactions, ethPriceCache>>

\* calculateEngagementRate(log) for the i-th log
CalculateEngagementRate(i) ==
  /\ metric' = [kind |-> "log", fn |-> "calculateEngagementRate", log |-> i,
                value |-> calculateEngagementRate(logs[i])]
  /\ UNCHANGED <<now, agents, logs, tokens, snapshots, signal, job,
               comments, reactions, ethPriceCache>>

CalculateAgentEngagementRate(agentId) ==
  /\ metric' = [kind |-> "agent", agent |-> agentId,
                value |-> calculateAgentEngagementRate(agentId)]
  /\ UNCHANGED <<now, agents, logs, tokens, snapshots, signal, job,
               comments, reactions, ethPriceCache>>

CalculateGrowthTrend(agentId, periodDays) ==
  /\ metric' = [kind |-> "growth", agent |-> agentId, periodDays |-> periodDays,
                value |-> calculateGrowthTrend(agentId, periodDays)]
  /\ UNCHANGED <<now, agents, logs, tokens, snapshots, signal, job,
               comments, reactions, ethPriceCache>>

NextAnalytics ==
  \/ \E i \in 1..Len(logs) : CalculateLogEngagementRate(i)
  \/ \E i \in 1..Len(logs) : CalculateEngagementRate(i)
  \/ \E agentId \in AgentIds \cup {GhostAgent} : CalculateAgentEngagementRate(agentId)
  \/ \E agentId \in AgentIds \cup {GhostAgent}, periodDays \in PeriodSamples :
       CalculateGrowthTrend(agentId, periodDays)

SpecAnalytics == InitAnalytics /\ [][NextAnalytics]_vars

(***************************************************************************)
(* Claims about the signal score                                           *)
(***************************************************************************)
Computed == signal.agent # "none"
Components == signal.components

\* C1: for every content of the stores, values outside their nominal ranges
\* included, the score calculateSignalScore returns is at least 0 and at most
\* 100.
C1_ScoreWithinZeroAndHundred ==
  Computed => RatLe(R(0), signal.score) /\ RatLe(signal.score, R(100))

Within(x, lo, hi) == RatLe(R(lo), x) /\ RatLe(x, R(hi))

\* C2: each component calculateSignalScore returns lies in its own range,
\* buildScore, tokenScore and socialScore in [0,30] and verificationBonus in
\* [0,10], for any stored inputs.
C2_ComponentsWithinRanges ==
  Computed =>
    /\ Within(Components.buildScore, 0, 30)
    /\ Within(Components.tokenScore, 0, 30)
    /\ Within(Components.socialScore, 0, 30)
    /\ Within(Components.verificationBonus, 0, 10)

\* the snapshot rows behind the agent's token score
ScoredSnapshots(agentId) ==
  UNION {LatestSnapshots(t.id) : t \in PrimaryCandidates(agentId)}

TierBreakpoints == <<1000, 10000, 100000, 1000000, 10000000, 100000000>>
TierPoints == <<0, 1, 3, 6, 9, 12, 15>>
\* the points of the highest breakpoint the market cap has reached
TierReached(mcap) ==
  TierPoints[1 + Cardinality({i \in 1..6 : mcap >= TierBreakpoints[i]})]
\* the points of the highest breakpoint the market cap has passed
TierPassed(mcap) ==
  TierPoints[1 + Cardinality({i \in 1..6 : mcap > TierBreakpoints[i]})]

Lesser(x, y) == IF x <= y THEN x ELSE y
\* tier + 7*min(holders/1000, 1) + 5*min(liquidity/100000, 1)
\* + 3*min(volume/50000, 1), rounded to one decimal, computed in units of
\* 1/1000000
ExpectedTokenScore(tier, s) ==
  LET x == tier * 1000000
           + Lesser(7000 * s.holders, 7000000)
           + Lesser(50 * s.liquidity, 5000000)
           + Lesser(60 * s.volume_24h, 3000000)
  IN Rat((2 * x + 100000) \div 200000, 10)

\* C3 as stated: the token score is tier + holder, liquidity and volume
\* parts, rounded to one decimal, where a market cap exactly at a breakpoint
\* earns that breakpoint's points.
C3_TokenScoreTierReached ==
  Computed =>
    \A s \in ScoredSnapshots(signal.agent) :
      ScoredSnapshots(signal.agent) = {s} =>
        Components.tokenScore = ExpectedTokenScore(TierReached(s.market_cap), s)

\* C3 amended: the token score is tier + 7*min(holders/1000, 1)
\* + 5*min(liquidity/100000, 1) + 3*min(volume24h/50000, 1), rounded to one
\* decimal, where the tier is the points of the highest breakpoint the market
\* cap is strictly above (exactly at a breakpoint it earns the tier below),
\* and the tier is non-decreasing in market cap.
C3_TokenScoreTierPassed ==
  /\ Computed =>
       \A s \in ScoredSnapshots(signal.agent) :
         ScoredSnapshots(signal.agent) = {s} =>
           Components.tokenScore = ExpectedTokenScore(TierPassed(s.market_cap), s)
  /\ \A s1, s2 \in snapshots :
       s1.market_cap <= s2.market_cap =>
         mcapTier(s1.market_cap) <= mcapTier(s2.market_cap)

\* a token score was computed from a snapshot whose market cap is exactly at
\* a breakpoint and whose other parts are positive
C3_Witness ==
  /\ Computed
  /\ \E s \in ScoredSnapshots(signal.agent) :
       /\ ScoredSnapshots(signal.agent) = {s}
       /\ s.market_cap = 1000000
       /\ s.holders > 0
       /\ Components.tokenScore = R(13)

\* the agent and stores of scenario B
ScenarioB(agentId) ==
  LET inWindow == {i \in 1..Len(logs) :
                     logs[i].agent_id = agentId /\ logs[i].created_at >= now - 90}
      recent == {i \in inWindow : logs[i].created_at > now - 7}
  IN /\ Cardinality(inWindow) = 20
     /\ Cardinality(recent) = 5
     /\ \A i \in inWindow : logs[i].quality_score = R(80)
     /\ \E t \in tokens : t.agent_id = agentId /\ t.is_primary
     /\ \A s \in ScoredSnapshots(agentId) : s.market_cap = 5000000 /\ s.holders = 2000
     /\ Cardinality(ScoredSnapshots(agentId)) = 1
     /\ agents[agentId].engagement_rate = Rat(6, 100)
     /\ agents[agentId].audience_score = R(40)
     /\ agents[agentId].growth_trend = R(30)
     /\ agents[agentId].erc8004_agent_id /\ agents[agentId].twitter
     /\ ~agents[agentId].linked_github /\ ~agents[agentId].website

\* the components of scenario B with the given market-cap part
ScenarioBScores(mcapPart) ==
  \A s \in ScoredSnapshots(signal.agent) :
    /\ Components.buildScore = R(10 + 10 + 8)
    /\ Components.tokenScore = ExpectedTokenScore(mcapPart, s)
    /\ Lesser(7000 * s.holders, 7000000) = 7000000
    /\ Components.socialScore = Rat(120 + 40 + 48, 10)
    /\ Components.verificationBonus = R(7)
    /\ RatLe(signal.score, R(100))

\* C4 as stated: in scenario B the build score is 28, the market-cap part of
\* the token score is 12 and its holder part 7, the social score is 20.8, the
\* verification bonus is 7 and the total is at most 100.
C4_ScenarioBMcapTwelve ==
  (Computed /\ signal.agent \in AgentIds /\ ScenarioB(signal.agent))
    => ScenarioBScores(12)

\* C4 amended: in scenario B the build score is 10+10+8 = 28, the market-cap
\* part of the token score is 9 (5,000,000 USD is above 1e6 and not above
\* 1e7) and its holder part is 7, the social score is 12+4+4.8 = 20.8, the
\* verification bonus is 7 and the total is at most 100.
C4_ScenarioBMcapNine ==
  (Computed /\ signal.agent \in AgentIds /\ ScenarioB(signal.agent))
    => ScenarioBScores(9)

\* the score of scenario B's agent was computed, with liquidity and volume
\* in the snapshot
C4_Witness ==
  /\ Computed /\ signal.agent \in AgentIds /\ ScenarioB(signal.agent)
  /\ \E s \in ScoredSnapshots(signal.agent) : s.liquidity > 0 /\ s.volume_24h > 0
  /\ signal.score = Rat(749, 10)

(***************************************************************************)
(* Claims about the merge and the snapshots                                *)
(***************************************************************************)
Merged == job.pc \in {"carry", "insert", "done"}
Inserted == job.pc = "done"

\* some adapter's partial result has a non-zero value for field f
SomeNonZero(f) ==
  \E c \in DOMAIN job.settled :
    f \in DOMAIN job.settled[c] /\ job.settled[c][f] # 0

AdapterPriority == <<"v4", "pools", "holders">>

RECURSIVE FirstNonZero(_, _)
\* the first non-zero, non-missing value of f from the i-th adapter on
FirstNonZero(f, i) ==
  IF i > Len(AdapterPriority) THEN 0
  ELSE LET c == AdapterPriority[i]
       IN IF c \in DOMAIN job.settled /\ f \in DOMAIN job.settled[c]
               /\ job.settled[c][f] # 0
            THEN job.settled[c][f]
          ELSE FirstNonZero(f, i + 1)

\* the adapters' results of scenario A
ScenarioA ==
  /\ DOMAIN job.settled = {"v4", "pools", "holders"}
  /\ job.settled["v4"] = TokenData(2, 2000000, 0, 0, 0, 0)
  /\ "liquidity" \in DOMAIN job.settled["pools"]
  /\ job.settled["pools"].liquidity = 50000
  /\ job.settled["pools"].volume24h = 10000
  /\ job.settled["holders"].holders = 500

EarlierPositive ==
  {s \in snapshots : /\ s.token_id = job.inserted.token_id
                     /\ s.snapshot_at < job.inserted.snapshot_at
                     /\ s.holders > 0}

Column(row, f) ==
  CASE f = "priceUsd" -> row.price_usd
    [] f = "marketCap" -> row.market_cap
    [] f = "holders" -> row.holders
    [] f = "volume24h" -> row.volume_24h
    [] f = "liquidity" -> row.liquidity
    [] f = "priceChange24h" -> row.price_change_24h

\* C8: carry-forward applies to holder count only: when every adapter reports
\* zero or nothing for price, market cap, 24h volume or liquidity, the
\* inserted snapshot holds 0 for that field even when earlier snapshots of the
\* token hold positive values for it.
C8_OnlyHoldersCarriedForward ==
  Inserted =>
    \A f \in {"priceUsd", "marketCap", "volume24h", "liquidity"} :
      ~SomeNonZero(f) => Column(job.inserted, f) = 0

\* a snapshot inserted with a carried holder count and with price, market cap,
\* volume and liquidity 0, an earlier snapshot of the token holding positive
\* values for all four
C8_Witness ==
  /\ Inserted /\ job.merged.holders = 0 /\ job.inserted.holders > 0
  /\ \A f \in {"priceUsd", "marketCap", "volume24h", "liquidity"} :
       /\ Column(job.inserted, f) = 0
       /\ \E s \in snapshots :
            /\ s.token_id = job.inserted.token_id
            /\ s.snapshot_at < job.inserted.snapshot_at
            /\ Column(s, f) > 0

(***************************************************************************)
(* Claims about the engagement analytics                                   *)
(***************************************************************************)
RECURSIVE SumOver(_, _)
\* the sum of w[i] over the indices i in S
SumOver(S, w) ==
  IF S = {} THEN 0
  ELSE LET i == CHOOSE x \in S : TRUE IN w[i] + SumOver(S \ {i}, w)

\* reactions plus comments of every log
Numerator ==
  [i \in 1..Len(logs) |->
     logs[i].reaction_fire + logs[i].reaction_ship + logs[i].reaction_claw
       + logs[i].reaction_brain + logs[i].reaction_bug + logs[i].comment_count]
Impressions == [i \in 1..Len(logs) |-> logs[i].impressions]

\* the number v is e / i for i > 0, and exactly 0 for i = 0
IsRatio(v, e, i) ==
  /\ v.d > 0
  /\ IF i = 0 THEN v = R(0) ELSE v.n * i = e * v.d

LogsOf(agentId) == {i \in 1..Len(logs) : logs[i].agent_id = agentId}

\* C9: an engagement rate never divides by zero and is never negative: a
\* post's rate is (sum of its five reaction counters + comment count) /
\* impressions and exactly 0 when impressions is 0; an agent's rate is the sum
\* of those numerators over the sum of impressions of all its posts and
\* exactly 0 when it has no posts or the impressions total 0.
C9_EngagementRates ==
  /\ metric.kind = "log" =>
       /\ IsRatio(metric.value, Numerator[metric.log], Impressions[metric.log])
       /\ metric.value.n >= 0
  /\ metric.kind = "agent" =>
       /\ IsRatio(metric.value, SumOver(LogsOf(metric.agent), Numerator),
                  SumOver(LogsOf(metric.agent), Impressions))
       /\ metric.value.n >= 0

\* the rate of a post without impressions but with reactions was computed
C9_WitnessPost ==
  /\ metric.kind = "log"
  /\ Impressions[metric.log] = 0 /\ Numerator[metric.log] > 0
  /\ metric.value = R(0)

\* the rate of an agent was computed whose posts' rates have another mean:
\* two posts with rates 3/10 and 3/2, the agent's rate being 6/12
C9_Witness ==
  /\ metric.kind = "agent"
  /\ Cardinality(LogsOf(metric.agent)) = 2
  /\ \E i, j \in LogsOf(metric.agent) :
       /\ Impressions[i] = 10 /\ Numerator[i] = 3
       /\ Impressions[j] = 2 /\ Numerator[j] = 3
  /\ metric.value = Rat(1, 2)

\* the agent's logs created in the N days up to the clock, and in the N days
\* before those
CurrentWindow(agentId, N) ==
  {i \in LogsOf(agentId) : now - N <= logs[i].created_at /\ logs[i].created_at <= now}
PreviousWindow(agentId, N) ==
  {i \in LogsOf(agentId) :
     now - 2 * N <= logs[i].created_at /\ logs[i].created_at < now - N}

\* C10: calculateGrowthTrend returns 100 when the previous window's rate is 0
\* and the current window's rate is positive, 0 when both are 0, and otherwise
\* 100 * (current - previous) / previous; the windows are adjacent, disjoint
\* and of N days each, and a window's rate is total engagement over total
\* impressions of the agent's posts created in it.
C10_GrowthTrend ==
  metric.kind = "growth" =>
    LET cur == CurrentWindow(metric.agent, metric.periodDays)
        prev == PreviousWindow(metric.agent, metric.periodDays)
        ce == SumOver(cur, Numerator)
        ci == SumOver(cur, Impressions)
        pe == SumOver(prev, Numerator)
        pi == SumOver(prev, Impressions)
        currentPositive == ci > 0 /\ ce > 0
        previousZero == pi = 0 \/ pe = 0
    IN /\ metric.value.d > 0
       /\ cur \cap prev = {}
       /\ previousZero /\ currentPositive => metric.value = R(100)
       /\ previousZero /\ ~currentPositive => metric.value = R(0)
       /\ ~previousZero /\ ci = 0 => metric.value = R(-100)
       /\ ~previousZero /\ ci > 0 =>
            metric.value.n * (ci * pe) = 100 * (ce * pi - pe * ci) * metric.value.d

\* a trend was computed from two posts in the current window, one of them on
\* the windows' common limit, and one post in the previous window, all with
\* engagement: rates 6/12 and 3/10, the trend being +66.67 %
C10_Witness ==
  /\ metric.kind = "growth" /\ metric.periodDays = 7
  /\ Cardinality(CurrentWindow(metric.agent, 7)) = 2
  /\ \E i \in CurrentWindow(metric.agent, 7) : logs[i].created_at = now - 7
  /\ Cardinality(PreviousWindow(metric.agent, 7)) = 1
  /\ metric.value = Rat(200, 3)

(***************************************************************************)
(* Content quality score (analytics engine)                                *)
(***************************************************************************)
\* a row of table comments; content is kept by its length, parent_id is
\* <<>> for a root comment
CommentRow(id, logId, parentId, agentId, length) ==
  [id |-> id, log_id |-> logId, parent_id |-> parentId, agent_id |-> agentId,
   length |-> length]

\* a row of table reactions
ReactionRow(logId, agentId, type) ==
  [log_id |-> logId, agent_id |-> agentId, type |-> type]

\* .from(COMMENTS).eq('log_id', logId)
commentsOf(logId) == {c \in comments : c.log_id = logId}

\* comments.reduce((sum, c) => sum + c.content.length, 0)
RECURSIVE sumContentLength(_)
sumContentLength(cs) ==
  IF cs = {} THEN 0
  ELSE LET c == CHOOSE x \in cs : TRUE
       IN c.length + sumContentLength(cs \ {c})

\* reactionTypes.filter(r => r > 0).length
nonZeroReactions(log) ==
  Cardinality({t \in {"reaction_fire", "reaction_ship", "reaction_claw",
                      "reaction_brain", "reaction_bug"} : log[t] > 0})

\* calculateQualityScore with the commenter term left uncapped
calculateQualityScoreUncapped(logId) ==
  IF logId \notin 1..Len(logs) THEN R(0)
  ELSE LET cs == commentsOf(logId)
           n == Cardinality(cs)
           reactionPart == RatMul(Rat(nonZeroReactions(logs[logId]), 5), R(30))
       IN IF n = 0 THEN MathRound(reactionPart)
          ELSE MathRound(RatAdd(RatAdd(RatAdd(reactionPart,
                 RatMul(Rat(Cardinality({c \in cs : c.parent_id # <<>>}), n), R(30))),
                 RatMul(Rat(Cardinality({c.agent_id : c \in cs}), 10), R(20))),
                 RatMul(MathMin(RatDiv(Rat(sumContentLength(cs), n), R(100)), R(1)),
                        R(20))))

\* calculateQualityScore(env, logId)
calculateQualityScore(logId) ==
  IF logId \notin 1..Len(logs) THEN R(0)
  ELSE LET cs == commentsOf(logId)
           n == Cardinality(cs)
           reactionPart == RatMul(Rat(nonZeroReactions(logs[logId]), 5), R(30))
           replies == Cardinality({c \in cs : c.parent_id # <<>>})
           replyPart == RatMul(Rat(replies, n), R(30))
           uniqueCommenters == Cardinality({c.agent_id : c \in cs})
           commenterScore ==
             RatMul(MathMin(Rat(uniqueCommenters, 10), R(1)), R(20))
           avgLength == Rat(sumContentLength(cs), n)
           lengthScore == RatMul(MathMin(RatDiv(avgLength, R(100)), R(1)), R(20))
       IN IF n = 0 THEN MathRound(reactionPart)
          ELSE MathRound(RatAdd(RatAdd(RatAdd(reactionPart, replyPart),
                                       commenterScore), lengthScore))

(***************************************************************************)
(* Specification SpecQuality: calculateQualityScore over a stored post and *)
(* its comments.                                                           *)
(***************************************************************************)
\* the largest number of comments under the post
MaxComments == 11

Commenters ==
  <<"u1", "u2", "u3", "u4", "u5", "u6", "u7", "u8", "u9", "u10", "u11",
    "u12", "u13", "u14">>

\* reaction counters fire, ship, claw, brain, bug
ReactionSamples ==
  {<<0, 0, 0, 0, 0>>, <<3, 0, 0, 0, 0>>, <<1, 0, 2, 0, 1>>, <<1, 1, 1, 1, 1>>,
   <<7, 2, 1, 0, 4>>}

\* content lengths of the odd and of the even comments
LengthSamples == {<<0, 0>>, <<40, 40>>, <<100, 100>>, <<250, 30>>, <<250, 250>>, <<7, 0>>}

\* n comments on post logId: the first k are replies, written in turn by u
\* commenters
SampleComments(logId, n, k, u, len) ==
  {CommentRow(i, logId, IF i <= k THEN <<1>> ELSE <<>>,
              Commenters[((i - 1) % u) + 1],
              IF i % 2 = 1 THEN len[1] ELSE len[2]) : i \in 1..n}

InitQuality ==
  /\ now = 100
  /\ agents = [x \in AgentIds |-> OtherAgent]
  /\ \E r \in ReactionSamples :
       logs = <<LogRow("a1", now - 1, R(0), 10, r[1], r[2], r[3], r[4], r[5], 0),
                LogRow("a2", now - 2, R(0), 10, 1, 1, 0, 0, 0, 0)>>
  /\ tokens = {}
  /\ snapshots = {}
  /\ signal = NoSignal
  /\ job = NoJob
  /\ metric = NoMetric
  /\ \E n \in 0..MaxComments :
       \E k \in {0, n \div 2, n}, u \in {1, 2, n} \ {0}, len \in LengthSamples :
         comments = SampleComments(1, n, k, IF n = 0 THEN 1 ELSE u, len)
                      \cup {CommentRow(100, 2, <<>>, "a1", 300)}
  /\ reactions = {}
  /\ ethPriceCache = NoCache

\* one call of calculateQualityScore(env, logId); log id 3 has no row
CalculateQualityScore(logId) ==
  /\ metric' = [kind |-> "quality", log |-> logId,
                value |-> calculateQualityScore(logId)]
  /\ UNCHANGED <<now, agents, logs, tokens, snapshots, signal, job,
                 comments, reactions, ethPriceCache>>

NextQuality == \E logId \in 1..3 : CalculateQualityScore(logId)

SpecQuality == InitQuality /\ [][NextQuality]_vars

(***************************************************************************)
(* Claims about the content quality score                                  *)
(***************************************************************************)
QualityOf == metric.log
QualityComments == {c \in comments : c.log_id = QualityOf}

RECURSIVE TotalLength(_)
TotalLength(cs) ==
  IF cs = {} THEN 0
  ELSE LET c == CHOOSE x \in cs : TRUE IN c.length + TotalLength(cs \ {c})

\* 5n times the unrounded sum of the four terms, n > 0 being the number of
\* comments: 30*z/5 + 30*k/n + 20*min(u/10, 1) + 20*min((S/n)/100, 1)
QualityTimesFiveN(z, n, k, u, S) ==
  30 * z * n + 150 * k + 10 * n * Lesser(u, 10) + Lesser(S, 100 * n)

\* C11: for every post calculateQualityScore is a whole number in [0,100]
\* equal to the rounded sum of 30 * (share of the five reaction counters
\* that are >= 1), 30 * (share of its comments that have a parent),
\* 20 * min(distinct commenters / 10, 1) and 20 * min(mean comment length /
\* 100, 1); a post without comments gets the reaction term only (at most
\* 30), and a missing post gets 0.
C11_QualityScore ==
  metric.kind = "quality" =>
    IF QualityOf \notin 1..Len(logs) THEN metric.value = R(0)
    ELSE LET log == logs[QualityOf]
             z == Cardinality({i \in 1..5 :
                    <<log.reaction_fire, log.reaction_ship, log.reaction_claw,
                      log.reaction_brain, log.reaction_bug>>[i] >= 1})
             n == Cardinality(QualityComments)
             k == Cardinality({c \in QualityComments : c.parent_id # <<>>})
             u == Cardinality({c.agent_id : c \in QualityComments})
             S == TotalLength(QualityComments)
         IN /\ metric.value.d = 1
            /\ metric.value.n \in 0..100
            /\ n = 0 => metric.value.n = 6 * z /\ metric.value.n <= 30
            /\ n > 0 => metric.value.n =
                 (2 * QualityTimesFiveN(z, n, k, u, S) + 5 * n) \div (10 * n)

\* a post with more than ten distinct commenters, replies and roots, and
\* comments longer than 100 characters on average has been scored
C11_Witness ==
  /\ metric.kind = "quality"
  /\ QualityOf = 1
  /\ Cardinality({c.agent_id : c \in QualityComments}) > 10
  /\ \E c \in QualityComments : c.parent_id # <<>>
  /\ \E c \in QualityComments : c.parent_id = <<>>
  /\ TotalLength(QualityComments) > 100 * Cardinality(QualityComments)
  /\ metric.value.n > 30

(***************************************************************************)
(* Audience score (analytics engine) and the handlers that add engagement  *)
(***************************************************************************)
\* .from(LOGS).select('id').eq('agent_id', agentId)
logIdsOf(agentId) == {i \in 1..Len(logs) : logs[i].agent_id = agentId}

\* processEngagement(items): <<weightedSum, totalWeight>> after the loop
RECURSIVE processEngagement(_, _)
processEngagement(items, acc) ==
  IF items = {} THEN acc
  ELSE LET item == CHOOSE x \in items : TRUE
           next == IF item.agent_id \in DOMAIN agents
                     THEN <<RatAdd(acc[1], agents[item.agent_id].engagement_rate),
                            acc[2] + 1>>
                   ELSE acc
       IN processEngagement(items \ {item}, next)

\* calculateAudienceScore with every engager counted once
calculateAudienceScoreDistinct(agentId) ==
  LET logIds == logIdsOf(agentId)
      engagers == {r.agent_id : r \in {x \in reactions : x.log_id \in logIds}}
                    \cup {c.agent_id : c \in {x \in comments : x.log_id \in logIds}}
      acc == processEngagement({[agent_id |-> a] : a \in engagers}, <<R(0), 0>>)
  IN IF logIds = {} \/ acc[2] = 0 THEN R(0)
     ELSE MathMin(RatMul(RatDiv(acc[1], R(acc[2])), R(1000)), R(100))

\* calculateAudienceScore(env, agentId)
calculateAudienceScore(agentId) ==
  LET logIds == logIdsOf(agentId)
      afterReactions ==
        processEngagement({r \in reactions : r.log_id \in logIds}, <<R(0), 0>>)
      afterComments ==
        processEngagement({c \in comments : c.log_id \in logIds}, afterReactions)
      weightedSum == afterComments[1]
      totalWeight == afterComments[2]
  IN IF logIds = {} THEN R(0)
     ELSE IF totalWeight = 0 THEN R(0)
     ELSE MathMin(RatMul(RatDiv(weightedSum, R(totalWeight)), R(1000)), R(100))

(***************************************************************************)
(* Specification SpecAudience: agents react to and comment on posts, and   *)
(* calculateAudienceScore is called in between.                            *)
(***************************************************************************)
\* the largest number of reaction and comment rows
MaxEngagements == 3

\* stored engagement rates of a1 and a2
RateSamples ==
  {<<Rat(1, 100), Rat(3, 100)>>, <<R(0), Rat(1, 20)>>, <<Rat(1, 5), Rat(1, 5)>>,
   <<Rat(2, 100), Rat(8, 100)>>}

ReactionTypeSamples == {"fire", "claw"}

InitAudience ==
  /\ now = 100
  /\ \E rs \in RateSamples :
       agents = [x \in AgentIds |->
                   AgentRow(TRUE, FALSE, FALSE, FALSE,
                            IF x = "a1" THEN rs[1] ELSE rs[2], R(0), R(0))]
  /\ logs = <<LogRow("a1", now - 1, R(0), 10, 0, 0, 0, 0, 0, 0),
              LogRow("a2", now - 2, R(0), 10, 0, 0, 0, 0, 0, 0)>>
  /\ tokens = {}
  /\ snapshots = {}
  /\ signal = NoSignal
  /\ job = NoJob
  /\ metric = NoMetric
  /\ comments = {}
  /\ reactions = {}
  /\ ethPriceCache = NoCache

\* addReaction that also rewrites the engagement rate of the post's author
AddReactionUpdatingRate(logId, agentId, type) ==
  /\ Cardinality(reactions) + Cardinality(comments) < MaxEngagements
  /\ ReactionRow(logId, agentId, type) \notin reactions
  /\ reactions' = reactions \cup {ReactionRow(logId, agentId, type)}
  /\ logs' = [logs EXCEPT ![logId] =
                IF type = "fire" THEN [@ EXCEPT !.reaction_fire = @ + 1]
                ELSE [@ EXCEPT !.reaction_claw = @ + 1]]
  /\ agents' = [agents EXCEPT ![agentId].total_reactions = @ + 1,
                              ![logs[logId].agent_id].engagement_rate =
                                 RatAdd(@, Rat(1, 100))]
  /\ UNCHANGED <<now, tokens, snapshots, signal, job, metric, comments,
                 ethPriceCache>>

\* addReaction(env, logId, agentId, type): the insert fails on a duplicate
\* (UNIQUE(log_id, agent_id, type)); otherwise the counters are incremented
AddReaction(logId, agentId, type) ==
  /\ Cardinality(reactions) + Cardinality(comments) < MaxEngagements
  /\ ReactionRow(logId, agentId, type) \notin reactions
  /\ reactions' = reactions \cup {ReactionRow(logId, agentId, type)}
  /\ logs' = [logs EXCEPT ![logId] =
                IF type = "fire" THEN [@ EXCEPT !.reaction_fire = @ + 1]
                ELSE [@ EXCEPT !.reaction_claw = @ + 1]]
  /\ agents' = [agents EXCEPT ![agentId].total_reactions = @ + 1]
  /\ UNCHANGED <<now, tokens, snapshots, signal, job, metric, comments,
                 ethPriceCache>>

\* addComment(env, input): a reply needs its parent on the same log
AddComment(logId, agentId, parentId, length) ==
  /\ Cardinality(reactions) + Cardinality(comments) < MaxEngagements
  /\ length >= 1 /\ length <= 1000
  /\ parentId # <<>> =>
       \E parent \in comments : parent.id = parentId[1] /\ parent.log_id = logId
  /\ comments' = comments \cup
       {CommentRow(Cardinality(comments) + 1, logId, parentId, agentId, length)}
  /\ logs' = [logs EXCEPT ![logId].comment_count = @ + 1]
  /\ agents' = [agents EXCEPT ![agentId].total_comments = @ + 1]
  /\ UNCHANGED <<now, tokens, snapshots, signal, job, metric, reactions,
                 ethPriceCache>>

\* one call of calculateAudienceScore(env, agentId)
CalculateAudienceScore(agentId) ==
  /\ metric' = [kind |-> "audience", agent |-> agentId,
                value |-> calculateAudienceScore(agentId)]
  /\ UNCHANGED <<now, agents, logs, tokens, snapshots, signal, job,
                 comments, reactions, ethPriceCache>>

NextAudience ==
  \/ \E logId \in 1..Len(logs), agentId \in AgentIds, type \in ReactionTypeSamples :
       AddReaction(logId, agentId, type)
  \/ \E logId \in 1..Len(logs), agentId \in AgentIds,
        parentId \in {<<>>} \cup {<<c.id>> : c \in comments} :
       AddComment(logId, agentId, parentId, 20)
  \/ \E agentId \in AgentIds \cup {GhostAgent} : CalculateAudienceScore(agentId)

SpecAudience == InitAudience /\ [][NextAudience]_vars

(***************************************************************************)
(* Claims about the audience score                                         *)
(***************************************************************************)
\* the posts of the subject agent, and how many reaction and comment rows
\* an engager has on them
PostsOf(subject) == {i \in 1..Len(logs) : logs[i].agent_id = subject}

EngagementsBy(engager, subject) ==
  Cardinality({r \in reactions : r.agent_id = engager /\ r.log_id \in PostsOf(subject)})
    + Cardinality({c \in comments : c.agent_id = engager /\ c.log_id \in PostsOf(subject)})

Engagers(subject) == {x \in AgentIds : EngagementsBy(x, subject) > 0}

\* sum over the engagers of weight * stored engagement rate, the weights of
\* a1 and a2 being given
WeightedRates(w1, w2) ==
  RatAdd(RatMul(R(w1), agents["a1"].engagement_rate),
         RatMul(R(w2), agents["a2"].engagement_rate))

ScaledAndCapped(sum, weight) ==
  IF weight = 0 THEN R(0)
  ELSE LET v == RatMul(RatDiv(sum, R(weight)), R(1000))
       IN IF RatLe(v, R(100)) THEN v ELSE R(100)

\* the mean over the distinct engagers, times 1000, capped at 100
MeanOverEngagers(subject) ==
  LET w1 == IF "a1" \in Engagers(subject) THEN 1 ELSE 0
      w2 == IF "a2" \in Engagers(subject) THEN 1 ELSE 0
  IN ScaledAndCapped(WeightedRates(w1, w2), w1 + w2)

\* the mean over the reaction and comment rows, times 1000, capped at 100
MeanOverEngagements(subject) ==
  LET w1 == EngagementsBy("a1", subject)
      w2 == EngagementsBy("a2", subject)
  IN ScaledAndCapped(WeightedRates(w1, w2), w1 + w2)

Q96 == 16
WethDecimals == 3
UsdcDecimals == 1
CacheLifetime == 300000

\* (sqrtPriceX96 * sqrtPriceX96 * (10n ** 18n)) / (Q96 * Q96)
priceE18(sqrtPriceX96) ==
  (sqrtPriceX96 * sqrtPriceX96 * (10 ^ WethDecimals)) \div (Q96 * Q96)

\* parseEthPrice(sqrtPriceX96)
parseEthPrice(sqrtPriceX96) == Rat(priceE18(sqrtPriceX96), 10 ^ UsdcDecimals)

\* tokenPriceInWeth with the two scaling branches exchanged
tokenPriceInWethSwapped(sqrtPriceX96, tokenDecimals) ==
  IF tokenDecimals = WethDecimals
    THEN Rat(priceE18(sqrtPriceX96), 10 ^ WethDecimals)
  ELSE LET adj == 10 ^ Abs(tokenDecimals - WethDecimals)
       IN IF tokenDecimals < WethDecimals
            THEN Rat(priceE18(sqrtPriceX96) * adj, 10 ^ WethDecimals)
          ELSE Rat(priceE18(sqrtPriceX96), adj * (10 ^ WethDecimals))

\* tokenPriceInWeth of fetchFromUniswapV4
tokenPriceInWeth(sqrtPriceX96, tokenDecimals) ==
  IF tokenDecimals = WethDecimals
    THEN Rat(priceE18(sqrtPriceX96), 10 ^ WethDecimals)
  ELSE LET adj == 10 ^ Abs(tokenDecimals - WethDecimals)
       IN IF tokenDecimals > WethDecimals
            THEN Rat(priceE18(sqrtPriceX96) * adj, 10 ^ WethDecimals)
          ELSE Rat(priceE18(sqrtPriceX96), adj * (10 ^ WethDecimals))

\* the record fetchFromUniswapV4 returns: priceUsd and marketCap are
\* rationals, the other fields 0
v4TokenData(sqrtPriceX96, tokenDecimals, ethPrice, totalSupply) ==
  LET priceUsd == RatMul(tokenPriceInWeth(sqrtPriceX96, tokenDecimals), ethPrice)
      totalSupplyHuman == Rat(totalSupply, 10 ^ tokenDecimals)
  IN TokenData(priceUsd, RatMul(priceUsd, totalSupplyHuman), 0, 0, 0, 0)

\* the cache test with the age limit included
cacheFreshInclusive == ethPriceCache # NoCache /\ now - ethPriceCache.ts <= CacheLifetime

\* ethPriceCache && Date.now() - ethPriceCache.ts < 300_000
cacheFresh == ethPriceCache # NoCache /\ now - ethPriceCache.ts < CacheLifetime

(***************************************************************************)
(* Specification SpecV4: fetchFromUniswapV4 calls, which may overlap, and  *)
(* the passing of time.  A result word is <<value>>, the empty result      *)
(* '0x' is <<>>.                                                           *)
(***************************************************************************)
\* the largest number of clock advances
MaxTicks == 3

Callers == {"c1"}

TickSamples == {1, CacheLifetime - 1}

TicksTaken == (now % (CacheLifetime - 1)) + (now \div (CacheLifetime - 1))

EthSqrtSamples == {<<>>, <<8>>, <<16>>}

SqrtSamples == {<<>>, <<0>>, <<1>>, <<16>>, <<24>>}

SupplySamples == {<<>>, <<0>>, <<25000>>}

DecimalSamples == {WethDecimals - 2, WethDecimals, WethDecimals + 1}

InitV4 ==
  /\ now = 0
  /\ agents = [x \in AgentIds |-> OtherAgent]
  /\ logs = <<>>
  /\ tokens = {}
  /\ snapshots = {}
  /\ signal = NoSignal
  /\ job = [c \in Callers |-> NoJob]
  /\ metric = NoMetric
  /\ comments = {}
  /\ reactions = {}
  /\ ethPriceCache = NoCache

\* time passes
Tick(delta) ==
  /\ TicksTaken < MaxTicks
  /\ now' = now + delta
  /\ UNCHANGED <<agents, logs, tokens, snapshots, signal, job, metric,
                 comments, reactions, ethPriceCache>>

\* fetchFromUniswapV4 is called: the cache is tested and the batch is sent
V4Call(caller, tokenDecimals) ==
  /\ job[caller].pc = "idle"
  /\ job' = [job EXCEPT ![caller] =
               [pc |-> "batch", tokenDecimals |-> tokenDecimals,
                cached |-> cacheFresh, lookup |-> now]]
  /\ UNCHANGED <<now, agents, logs, tokens, snapshots, signal, metric,
                 comments, reactions, ethPriceCache>>

\* ethCallBatch throws ('All RPCs failed'): the call rejects
V4BatchThrows(caller) ==
  /\ job[caller].pc = "batch"
  /\ job' = [job EXCEPT ![caller] = NoJob]
  /\ metric' = [kind |-> "v4", caller |-> caller, outcome |-> "threw",
                cached |-> job[caller].cached, lookup |-> job[caller].lookup,
                read |-> IF job[caller].cached THEN "none" ELSE "failed",
                before |-> ethPriceCache, ref |-> <<>>,
                at |-> now]
  /\ UNCHANGED <<now, agents, logs, tokens, snapshots, signal,
                 comments, reactions, ethPriceCache>>

\* ethCallBatch returns the words ref (V3 slot0, not asked for when the
\* cache was fresh), slot (V4 getSlot0) and supply (totalSupply)
V4BatchReturns(caller, ref, slot, supply) ==
  /\ job[caller].pc = "batch"
  /\ LET j == job[caller]
         refOk == j.cached \/ ref # <<>>
         ethPrice == IF j.cached THEN ethPriceCache.price ELSE parseEthPrice(ref[1])
         written == ~j.cached /\ ref # <<>>
         ok == refOk /\ slot # <<>> /\ supply # <<>>
     IN /\ ethPriceCache' = IF written THEN [price |-> ethPrice, ts |-> now]
                            ELSE ethPriceCache
        /\ metric' =
             IF ok
               THEN [kind |-> "v4", caller |-> caller, outcome |-> "ok",
                     cached |-> j.cached, lookup |-> j.lookup,
                     read |-> IF j.cached THEN "none" ELSE "ok",
                     before |-> ethPriceCache, ref |-> ref, at |-> now,
                     ethPrice |-> ethPrice,
                     sqrtPriceX96 |-> slot[1], tokenDecimals |-> j.tokenDecimals,
                     totalSupply |-> supply[1],
                     data |-> v4TokenData(slot[1], j.tokenDecimals, ethPrice, supply[1])]
             ELSE [kind |-> "v4", caller |-> caller, outcome |-> "threw",
                   cached |-> j.cached, lookup |-> j.lookup,
                   read |-> IF j.cached THEN "none"
                            ELSE IF ref = <<>> THEN "malformed" ELSE "ok",
                   before |-> ethPriceCache, ref |-> ref, at |-> now]
        /\ job' = [job EXCEPT ![caller] = NoJob]
  /\ UNCHANGED <<now, agents, logs, tokens, snapshots, signal,
                 comments, reactions>>

NextV4 ==
  \/ \E delta \in TickSamples : Tick(delta)
  \/ \E caller \in Callers, tokenDecimals \in DecimalSamples :
       V4Call(caller, tokenDecimals)
  \/ \E caller \in Callers : V4BatchThrows(caller)
  \/ \E caller \in Callers, ref \in EthSqrtSamples, slot \in SqrtSamples,
        supply \in SupplySamples :
       /\ job[caller].pc = "batch"
       /\ job[caller].cached => ref = <<>>
       /\ V4BatchReturns(caller, ref, slot, supply)

SpecV4 == InitV4 /\ [][NextV4]_vars

(***************************************************************************)
(* Claims about the pool price derivation and the ETH price cache          *)
(***************************************************************************)
Derived == metric.kind = "v4" /\ metric.outcome = "ok"

\* x * 10^(d - WethDecimals)
ScaledByDecimals(x, d) ==
  IF d >= WethDecimals THEN RatMul(x, R(10 ^ (d - WethDecimals)))
  ELSE RatDiv(x, R(10 ^ (WethDecimals - d)))

\* sqrtPriceX96^2 / 2^192
PoolRatio(sqrt) == Rat(sqrt * sqrt, Q96 * Q96)

\* the pool ratio cut off after WethDecimals decimal places
PoolRatioTruncated(sqrt) ==
  Rat((sqrt * sqrt * (10 ^ WethDecimals)) \div (Q96 * Q96), 10 ^ WethDecimals)

MarketCapOfPrice ==
  metric.data.marketCap =
    RatMul(metric.data.priceUsd,
           Rat(metric.totalSupply, 10 ^ metric.tokenDecimals))

\* C13 as stated: for every sqrt-price and every token decimal count d the
\* derived price is non-negative and equals (sqrtPriceX96^2 / 2^192) *
\* 10^(d-18) * reference price, and the market cap is that price times
\* totalSupply / 10^d.
C13_PriceIsPoolRatioScaled ==
  Derived =>
    /\ RatLe(R(0), metric.data.priceUsd)
    /\ metric.data.priceUsd =
         RatMul(ScaledByDecimals(PoolRatio(metric.sqrtPriceX96), metric.tokenDecimals),
                metric.ethPrice)
    /\ MarketCapOfPrice

\* C13 amended: the derived price is non-negative and equals the pool
\* ratio sqrtPriceX96^2 / 2^192 cut off after 18 decimal places, times
\* 10^(d-18) (multiplied when d > 18, divided when d < 18), times the
\* reference price; it is never above the exact product, equal decimals
\* with a pool ratio of 1 give exactly the reference price, and the market
\* cap is the price times totalSupply / 10^d.
C13_PriceIsTruncatedRatioScaled ==
  Derived =>
    /\ RatLe(R(0), metric.data.priceUsd)
    /\ metric.data.priceUsd =
         RatMul(ScaledByDecimals(PoolRatioTruncated(metric.sqrtPriceX96),
                                 metric.tokenDecimals),
                metric.ethPrice)
    /\ RatLe(metric.data.priceUsd,
             RatMul(ScaledByDecimals(PoolRatio(metric.sqrtPriceX96),
                                     metric.tokenDecimals),
                    metric.ethPrice))
    /\ (metric.tokenDecimals = WethDecimals /\ metric.sqrtPriceX96 = Q96)
         => metric.data.priceUsd = metric.ethPrice
    /\ MarketCapOfPrice

\* a price was derived for a token with fewer decimals than WETH from a
\* pool ratio that does not fit the 18 decimal places
C13_Witness ==
  /\ Derived
  /\ metric.tokenDecimals < WethDecimals
  /\ PoolRatioTruncated(metric.sqrtPriceX96) # PoolRatio(metric.sqrtPriceX96)
  /\ RatLt(R(0), metric.data.priceUsd)
  /\ RatLt(R(0), metric.data.marketCap)

\* a price was derived for a token with more decimals than WETH
C13_WitnessMoreDecimals ==
  /\ Derived
  /\ metric.tokenDecimals > WethDecimals
  /\ metric.sqrtPriceX96 = Q96
  /\ RatLt(R(0), metric.data.priceUsd)

\* C14: the cached ETH price is used only when it was stored less than
\* 300,000 ms before the lookup; otherwise the reference pool is read
\* again and the cache is replaced by the new price and the time of the
\* read; a failed or malformed reference read leaves the cache unchanged.
C14_CacheLifetime ==
  metric.kind = "v4" =>
    /\ metric.cached <=>
         (metric.before # NoCache /\ metric.lookup - metric.before.ts < 300000)
    /\ metric.cached =>
         /\ metric.read = "none"
         /\ metric.outcome = "ok" => metric.ethPrice = metric.before.price
    /\ ~metric.cached => metric.read # "none"
    /\ metric.read = "ok" =>
         /\ ethPriceCache # NoCache
         /\ ethPriceCache.ts = metric.at
         /\ ethPriceCache.price =
              Rat((metric.ref[1] * metric.ref[1] * (10 ^ WethDecimals)) \div (Q96 * Q96),
                  10 ^ UsdcDecimals)
         /\ metric.outcome = "ok" => metric.ethPrice = ethPriceCache.price
    /\ metric.read # "ok" => ethPriceCache = metric.before

\* a price was derived with an ETH price cached 299,999 ms before the lookup
C14_Witness ==
  /\ Derived
  /\ metric.cached
  /\ metric.lookup - metric.before.ts = 299999
  /\ metric.at > metric.lookup

\* the cache was 300,000 ms old at the lookup and was replaced
C14_WitnessReplaced ==
  /\ metric.kind = "v4"
  /\ metric.before # NoCache
  /\ metric.lookup - metric.before.ts = 300000
  /\ metric.read = "ok"
  /\ ethPriceCache # metric.before

(***************************************************************************)
(* The aggregator adapters and fetchTokenData as a whole (tokens.ts)       *)
(*                                                                         *)
(* A JSON string is a sequence of characters, null or a missing member is  *)
(* <<>> and a present value v is <<v>>.                                    *)
(***************************************************************************)
\* NaN: like every negative number it is neither > 0 nor === 0, which are
\* the only tests fetchTokenData applies to a value
NaN == -999999

DigitChars == <<"0", "1", "2", "3", "4", "5", "6", "7", "8", "9">>

IsDigit(c) == \E i \in 1..10 : DigitChars[i] = c

DigitValue(c) == (CHOOSE i \in 1..10 : DigitChars[i] = c) - 1

\* the value of the digits of s from position i on, up to the first
\* character that is no digit
RECURSIVE parseDigits(_, _, _)
parseDigits(s, i, acc) ==
  IF i > Len(s) \/ ~IsDigit(s[i]) THEN acc
  ELSE parseDigits(s, i + 1, acc * 10 + DigitValue(s[i]))

\* parseFloat(s) for strings without a fraction part: an optional sign and
\* the leading digits, NaN when there is no leading digit
parseFloat(s) ==
  LET signed == Len(s) > 0 /\ s[1] \in {"-", "+"}
      start == IF signed THEN 2 ELSE 1
  IN IF start > Len(s) \/ ~IsDigit(s[start]) THEN NaN
     ELSE IF signed /\ s[1] = "-" THEN 0 - parseDigits(s, start, 0)
     ELSE parseDigits(s, start, 0)

\* x || '0'
orZero(x) == IF x = <<>> \/ x = <<<<>>>> THEN <<"0">> ELSE x[1]

\* fetchGeckoPoolData: what it resolves to for a response of the pools
\* endpoint
fetchGeckoPoolData(res) ==
  IF res.kind = "throws" THEN NoData
  ELSE IF ~res.ok THEN NoData
  ELSE IF res.body = "unparsable" THEN NoData
  ELSE IF res.attributes = <<>> THEN NoData
  ELSE LET pool == res.attributes[1]
       IN [priceUsd |-> parseFloat(orZero(pool.base_token_price_usd)),
           marketCap |->
             parseFloat(IF pool.fdv_usd # <<>> /\ pool.fdv_usd # <<<<>>>>
                          THEN pool.fdv_usd[1]
                        ELSE orZero(pool.market_cap_usd)),
           volume24h |-> parseFloat(orZero(pool.volume_usd_h24)),
           liquidity |-> parseFloat(orZero(pool.reserve_in_usd)),
           priceChange24h |-> parseFloat(orZero(pool.price_change_percentage_h24))]

\* fetchGeckoHolderData: what it resolves to for a response of the info
\* endpoint
fetchGeckoHolderData(res) ==
  IF res.kind = "throws" THEN [holders |-> 0]
  ELSE IF ~res.ok THEN [holders |-> 0]
  ELSE IF res.body = "unparsable" THEN [holders |-> 0]
  ELSE IF res.count = <<>> \/ res.count[1] = 0 THEN [holders |-> 0]
  ELSE [holders |-> res.count[1]]

\* fetchTokenData(chain, contractAddress, decimals): v4 is what
\* fetchFromUniswapV4 settles with, pools and info are the responses of
\* the two aggregator endpoints
fetchTokenData(token, v4, pools, info) ==
  LET caught == IF v4.kind = "throws" THEN NoData ELSE v4.data
      batch1 == (IF token.dex = "uniswap_v4" THEN <<caught>> ELSE <<>>)
                  \o <<fetchGeckoPoolData(pools)>>
      results == Append(batch1, fetchGeckoHolderData(info))
  IN [raised |-> FALSE, data |-> mergeResults(results)]

(***************************************************************************)
(* Specification SpecFetch: fetchTokenData for every combination of        *)
(* adapter outcomes.                                                       *)
(***************************************************************************)
Chars(a, b, c) == <<a, b, c>>

Throws == [kind |-> "throws"]

\* a response with a status that is not OK (429, 500)
NotOk == [kind |-> "response", ok |-> FALSE]

\* a 200 response whose body is no JSON: res.json() throws
Unparsable == [kind |-> "response", ok |-> TRUE, body |-> "unparsable"]

\* a 200 response of the pools endpoint; attributes is <<>> when data is
\* missing or empty
PoolsBody(attributes) ==
  [kind |-> "response", ok |-> TRUE, body |-> "json", attributes |-> attributes]

PoolAttributes(price, fdv, mcap, reserve, volume, change) ==
  [base_token_price_usd |-> price, fdv_usd |-> fdv, market_cap_usd |-> mcap,
   reserve_in_usd |-> reserve, volume_usd_h24 |-> volume,
   price_change_percentage_h24 |-> change]

NotANumber == <<Chars("n", "/", "a")>>

PoolsResponses ==
  {Throws, NotOk, Unparsable, PoolsBody(<<>>),
   PoolsBody(<<PoolAttributes(<<<<"3">>>>, <<<<"9", "0", "0">>>>, <<>>,
                              <<<<"5", "0">>>>, <<<<"1", "0">>>>, <<<<"-", "5">>>>)>>),
   PoolsBody(<<PoolAttributes(<<<<"3">>>>, <<>>, <<<<"7", "0">>>>,
                              <<<<"5", "0">>>>, <<<<"0">>>>, <<<<"0">>>>)>>),
   PoolsBody(<<PoolAttributes(<<>>, <<>>, <<>>, <<>>, <<>>, <<>>)>>),
   PoolsBody(<<PoolAttributes(<<<<"3">>>>, <<<<"9", "0", "0">>>>, <<>>,
                              <<<<"5", "0">>>>, <<<<"1", "0">>>>, NotANumber)>>),
   PoolsBody(<<PoolAttributes(NotANumber, NotANumber, NotANumber, NotANumber,
                              NotANumber, NotANumber)>>)}

InfoBody(count) == [kind |-> "response", ok |-> TRUE, body |-> "json", count |-> count]

InfoResponses ==
  {Throws, NotOk, Unparsable, InfoBody(<<>>), InfoBody(<<0>>), InfoBody(<<500>>)}

V4Results ==
  {Throws, [kind |-> "data", data |-> TokenData(2, 2000, 0, 0, 0, 0)],
   [kind |-> "data", data |-> TokenData(0, 0, 0, 0, 0, 0)]}

FetchTokens ==
  {TokenRow("t1", "a1", TRUE, "uniswap_v4"),
   TokenRow("t2", "a1", FALSE, "raydium_launchlab"),
   TokenRow("t3", "a2", TRUE, "none")}

InitFetch ==
  /\ now = 1
  /\ agents = [x \in AgentIds |-> OtherAgent]
  /\ logs = <<>>
  /\ tokens = FetchTokens
  /\ snapshots = {}
  /\ signal = NoSignal
  /\ job = NoJob
  /\ metric = NoMetric
  /\ comments = {}
  /\ reactions = {}
  /\ ethPriceCache = NoCache

\* one call of fetchTokenData
FetchTokenData(token, v4, pools, info) ==
  /\ metric' = [kind |-> "fetch", token |-> token, v4 |-> v4, pools |-> pools,
                info |-> info, result |-> fetchTokenData(token, v4, pools, info)]
  /\ UNCHANGED <<now, agents, logs, tokens, snapshots, signal, job,
                 comments, reactions, ethPriceCache>>

NextFetch ==
  \E token \in tokens, v4 \in V4Results, pools \in PoolsResponses,
     info \in InfoResponses :
    /\ token.dex # "uniswap_v4" => v4 = Throws
    /\ FetchTokenData(token, v4, pools, info)

SpecFetch == InitFetch /\ [][NextFetch]_vars

(***************************************************************************)
(* Claims about fetchTokenData as a whole                                  *)
(***************************************************************************)
Fetched == metric.kind = "fetch"

IsNumber(x) == x # <<>> /\ x # <<<<>>>> /\ (IsDigit(x[1][1]) \/
                 (Len(x[1]) > 1 /\ x[1][1] = "-" /\ IsDigit(x[1][2])))

\* the response carries no number at all
NothingUsable(attributes) ==
  \A f \in DOMAIN attributes :
    attributes[f] # <<>> /\ attributes[f] # <<<<>>>> /\ ~IsNumber(attributes[f])

V4Failed == metric.token.dex # "uniswap_v4" \/ metric.v4.kind = "throws"

PoolsFailed ==
  \/ metric.pools.kind = "throws"
  \/ ~metric.pools.ok
  \/ metric.pools.body = "unparsable"
  \/ metric.pools.attributes = <<>>
  \/ NothingUsable(metric.pools.attributes[1])

InfoFailed ==
  \/ metric.info.kind = "throws"
  \/ ~metric.info.ok
  \/ metric.info.body = "unparsable"
  \/ metric.info.count = <<>>

AllZero == [f \in Fields |-> 0]

\* the values of the on-chain adapter and of the holder endpoint alone
WithoutPools ==
  [f \in Fields |->
     IF f \in {"priceUsd", "marketCap"} /\ ~V4Failed THEN metric.v4.data[f]
     ELSE IF f = "holders" /\ ~InfoFailed THEN metric.info.count[1]
     ELSE 0]

\* C15: fetchTokenData never raises; an adapter whose call throws, is
\* rate-limited, returns a non-OK status or returns malformed data
\* contributes no data while the values of the other adapters are still
\* merged, and when every adapter fails the result is the all-zero record.
C15_FailedAdapterContributesNothing ==
  Fetched =>
    /\ ~metric.result.raised
    /\ PoolsFailed => metric.result.data = WithoutPools
    /\ (V4Failed /\ PoolsFailed /\ InfoFailed) => metric.result.data = AllZero

\* C15, the part that holds: fetchTokenData never raises, and an adapter
\* whose call throws, returns a non-OK status, an unparsable body or a body
\* without the expected members contributes no data.
C15_NeverRaises ==
  Fetched =>
    /\ ~metric.result.raised
    /\ (PoolsFailed /\ (metric.pools.kind = "throws" \/ ~metric.pools.ok
          \/ metric.pools.body = "unparsable" \/ metric.pools.attributes = <<>>))
         => metric.result.data = WithoutPools

(***************************************************************************)
(* The batch jobs: snapshot refresh and updateAllSignalScores              *)
(***************************************************************************)
\* the orders in which a query without ORDER BY can return the rows S
Orders(S) ==
  {q \in [1..Cardinality(S) -> S] : \A i, k \in 1..Cardinality(S) : q[i] = q[k] => i = k}

\* the loop of a job after the body of item id threw and the catch block
\* ran, the loop being left at once
afterFailureAborts(j, id) ==
  [j EXCEPT !.i = Len(j.list) + 1, !.attempted = Append(@, id),
            !.failed = @ \cup {id}]

\* the loop of a job after the body of item id threw and the catch block
\* ran: the next item is taken
afterFailure(j, id) ==
  [j EXCEPT !.i = @ + 1, !.attempted = Append(@, id), !.failed = @ \cup {id}]

\* the loop of a job after the body of item id completed
afterSuccess(j, id) == [j EXCEPT !.i = @ + 1, !.attempted = Append(@, id)]

\* snapshot_at of the next insert, were the stamp of the first row reused
nextSnapshotAtReused ==
  IF snapshots = {} THEN 1
  ELSE CHOOSE m \in {s.snapshot_at : s \in snapshots} :
         \A s \in snapshots : m <= s.snapshot_at

\* snapshot_at of the next insert: inserts of one job are sequential, so
\* the stamps grow
nextSnapshotAt ==
  1 + (IF snapshots = {} THEN 0
       ELSE CHOOSE m \in {s.snapshot_at : s \in snapshots} :
              \A s \in snapshots : s.snapshot_at <= m)

signalScores == [a \in DOMAIN agents |-> agents[a].signal_score]

(***************************************************************************)
(* Specification SpecJobs: runs of the snapshot-refresh job and of         *)
(* updateAllSignalScores, one after the other, the days passing in         *)
(* between.  An item's body can throw at any of its awaits.                *)
(***************************************************************************)
\* the largest number of job runs
MaxRuns == 2

\* the largest number of days that pass
MaxDays == 1

JobStart == 200

\* created_at of the only post of a1: at the edge of the 90-day window,
\* inside the 7-day window
JobLogSamples == {<<JobStart - 90>>, <<JobStart - 3>>}

\* is_primary of t1 (t2 is never primary)
JobTokenSamples == {TRUE, FALSE}

\* what fetchTokenData returns during a refresh
JobFetchSamples ==
  {TokenData(0, 0, 0, 0, 0, 0), TokenData(3, 20000000, 800, 10000, 50000, -5)}

InitJobs ==
  /\ now = JobStart
  /\ agents = [x \in AgentIds |->
                 [AgentRow(TRUE, x = "a1", FALSE, FALSE, Rat(3, 100), R(10), R(20))
                    EXCEPT !.signal_score = R(50)]]
  /\ \E l \in JobLogSamples :
       logs = <<LogRow("a1", l[1], R(80), 10, 1, 0, 0, 0, 0, 0)>>
  /\ \E prim \in JobTokenSamples :
       tokens = {TokenRow("t1", "a1", prim, "uniswap_v4"),
                 TokenRow("t2", "a1", FALSE, "none")}
  /\ snapshots = {SnapshotRow("t1", 1, 2, 5000000, 500, 10000, 50000, 0),
                  SnapshotRow("t2", 2, 9, 200000000, 5000, 90000, 900000, 1)}
  /\ signal = NoSignal
  /\ job = [pc |-> "idle", history |-> <<>>]
  /\ metric = NoMetric
  /\ comments = {}
  /\ reactions = {}
  /\ ethPriceCache = NoCache

\* a day passes between two runs
DayPasses ==
  /\ job.pc = "idle"
  /\ now - JobStart < MaxDays
  /\ now' = now + 1
  /\ UNCHANGED <<agents, logs, tokens, snapshots, signal, job, metric,
                 comments, reactions, ethPriceCache>>

\* updateAllSignalScores starts: the verified agents are selected
StartSignals(list) ==
  /\ job.pc = "idle"
  /\ Len(job.history) < MaxRuns
  /\ job' = [pc |-> "signals", list |-> list, i |-> 1, attempted |-> <<>>,
             failed |-> {}, before |-> signalScores, history |-> job.history]
  /\ UNCHANGED <<now, agents, logs, tokens, snapshots, signal, metric,
                 comments, reactions, ethPriceCache>>

\* the body of the loop completes for the next agent: the score is
\* calculated and written
SignalItem ==
  /\ job.pc = "signals" /\ job.i <= Len(job.list)
  /\ LET id == job.list[job.i]
     IN /\ \E r \in calculateSignalScore(id) :
             /\ signal' = r
             /\ agents' = [agents EXCEPT ![id].signal_score = r.score]
        /\ job' = afterSuccess(job, id)
  /\ UNCHANGED <<now, logs, tokens, snapshots, metric, comments, reactions,
                 ethPriceCache>>

\* calculateSignalScore or the update throws for the next agent
SignalItemThrows ==
  /\ job.pc = "signals" /\ job.i <= Len(job.list)
  /\ job' = afterFailure(job, job.list[job.i])
  /\ UNCHANGED <<now, agents, logs, tokens, snapshots, signal, metric,
                 comments, reactions, ethPriceCache>>

\* the snapshot-refresh job starts: getAllLinkedTokens
StartSnapshots(list) ==
  /\ job.pc = "idle"
  /\ Len(job.history) < MaxRuns
  /\ job' = [pc |-> "snapshots", list |-> list, i |-> 1, attempted |-> <<>>,
             failed |-> {}, before |-> snapshots, history |-> job.history]
  /\ UNCHANGED <<now, agents, logs, tokens, snapshots, signal, metric,
                 comments, reactions, ethPriceCache>>

\* recordTokenSnapshot completes for the next token
SnapshotItem ==
  /\ job.pc = "snapshots" /\ job.i <= Len(job.list)
  /\ LET token == job.list[job.i]
     IN /\ \E fetched \in JobFetchSamples :
             \E data \in (IF fetched.holders = 0
                            THEN carryForward(fetched, token.id)
                          ELSE {fetched}) :
               snapshots' = snapshots \cup
                 {SnapshotRow(token.id, nextSnapshotAt, data.priceUsd,
                              data.marketCap, data.holders, data.volume24h,
                              data.liquidity, data.priceChange24h)}
        /\ job' = afterSuccess(job, token.id)
  /\ UNCHANGED <<now, agents, logs, tokens, signal, metric, comments,
                 reactions, ethPriceCache>>

\* recordTokenSnapshot throws for the next token, before its insert
SnapshotItemThrows ==
  /\ job.pc = "snapshots" /\ job.i <= Len(job.list)
  /\ job' = afterFailure(job, job.list[job.i].id)
  /\ UNCHANGED <<now, agents, logs, tokens, snapshots, signal, metric,
                 comments, reactions, ethPriceCache>>

\* the loop is over and the job returns
FinishJob ==
  /\ job.pc \in {"signals", "snapshots"} /\ job.i > Len(job.list)
  /\ job' = [pc |-> "idle",
             history |-> Append(job.history,
               [kind |-> job.pc, at |-> now,
                list |-> IF job.pc = "signals" THEN job.list
                         ELSE [i \in 1..Len(job.list) |-> job.list[i].id],
                attempted |-> job.attempted, failed |-> job.failed,
                before |-> job.before,
                after |-> IF job.pc = "signals" THEN signalScores ELSE snapshots])]
  /\ UNCHANGED <<now, agents, logs, tokens, snapshots, signal, metric,
                 comments, reactions, ethPriceCache>>

NextJobs ==
  \/ DayPasses
  \/ \E list \in Orders({a \in DOMAIN agents : agents[a].erc8004_agent_id}) :
       StartSignals(list)
  \/ SignalItem
  \/ SignalItemThrows
  \/ \E list \in Orders(tokens) : StartSnapshots(list)
  \/ SnapshotItem
  \/ SnapshotItemThrows
  \/ FinishJob

SpecJobs == InitJobs /\ [][NextJobs]_vars

(***************************************************************************)
(* Claims about the batch jobs                                             *)
(***************************************************************************)
Runs == {job.history[k] : k \in 1..Len(job.history)}

\* what is stored for item x in a store taken before or after a run
StoredFor(run, store, x) ==
  IF run.kind = "signals" THEN store[x]
  ELSE {row \in store : row.token_id = x}

C18_SecondRunSameScores ==
  \A k \in 1..(Len(job.history) - 1) :
    LET first == job.history[k]
        second == job.history[k + 1]
    IN (/\ first.kind = "signals" /\ second.kind = "signals"
        /\ first.failed = {} /\ second.failed = {}
        /\ first.list # <<>> /\ second.list # <<>>)
         => second.after = first.after

\* C18, the part that holds: two such runs on the same day leave the same
\* scores when every agent has a primary token or at most one token.
C18_SameScoresSameDay ==
  \A k \in 1..(Len(job.history) - 1) :
    LET first == job.history[k]
        second == job.history[k + 1]
    IN (/\ first.kind = "signals" /\ second.kind = "signals"
        /\ first.failed = {} /\ second.failed = {}
        /\ first.list # <<>> /\ second.list # <<>>
        /\ first.at = second.at
        /\ \A a \in DOMAIN agents : Cardinality(PrimaryCandidates(a)) <= 1)
         => second.after = first.after

(***************************************************************************)
(* recalculateAllAnalytics (part_012, 314-367)                             *)
(***************************************************************************)
\* engagement_rate, growth_trend and audience_score of every agent row
agentMetrics ==
  [a \in DOMAIN agents |->
     [engagement_rate |-> agents[a].engagement_rate,
      growth_trend |-> agents[a].growth_trend,
      audience_score |-> agents[a].audience_score]]

\* quality_score of every post
qualityScores == [i \in 1..Len(logs) |-> logs[i].quality_score]

\* the job after an await of the body of item id threw: the loops have no
\* try block, so the promise of recalculateAllAnalytics rejects
recalcRejected(j, id) ==
  [pc |-> "idle",
   history |-> Append(j.history,
     [kind |-> "recalc", rejected |-> TRUE, at |-> now,
      agentList |-> j.agentList,
      agentsAttempted |-> IF j.pc = "agents" THEN Append(j.attempted, id)
                          ELSE j.agentsAttempted,
      logsAttempted |-> IF j.pc = "logs" THEN Append(j.attempted, id) ELSE <<>>,
      before |-> j.before, after |-> agentMetrics,
      qualityAfter |-> qualityScores])]

(***************************************************************************)
(* Specification SpecRecalc: runs of recalculateAllAnalytics, one after    *)
(* the other, over posts, reactions and comments that do not change.  Any  *)
(* item's body can throw at one of its awaits.                             *)
(***************************************************************************)
\* the largest number of runs of recalculateAllAnalytics
MaxRecalcs == 2

\* impressions of the post of a1
RecalcImpressionSamples == {10, 20}

\* engagement_rate stored for a1 and a2 before the first run
RecalcRateSamples ==
  {<<R(0), R(0)>>, <<Rat(1, 10), Rat(1, 20)>>, <<Rat(1, 5), Rat(3, 100)>>}

\* a1 and a2 have one post each; a2 reacted to the post of a1 and a1
\* commented on the post of a2
InitRecalc ==
  /\ now = 100
  /\ \E rs \in RecalcRateSamples :
       agents = [x \in AgentIds |->
                   AgentRow(TRUE, FALSE, FALSE, FALSE,
                            IF x = "a1" THEN rs[1] ELSE rs[2], R(0), R(0))]
  /\ \E imp \in RecalcImpressionSamples :
       logs = <<LogRow("a1", now - 1, R(0), imp, 1, 0, 0, 0, 0, 0),
                LogRow("a2", now - 9, R(0), 20, 0, 0, 0, 0, 0, 1)>>
  /\ reactions = {ReactionRow(1, "a2", "fire")}
  /\ comments = {CommentRow(1, 2, <<>>, "a1", 40)}
  /\ tokens = {}
  /\ snapshots = {}
  /\ signal = NoSignal
  /\ job = [pc |-> "idle", history |-> <<>>]
  /\ metric = NoMetric
  /\ ethPriceCache = NoCache

\* lines 318-329: the agents are read, in the order the database returns
\* them
StartRecalc(list) ==
  /\ job.pc = "idle" /\ Len(job.history) < MaxRecalcs
  /\ job' = [pc |-> "agents", history |-> job.history, list |-> list,
             agentList |-> list, i |-> 1, attempted |-> <<>>,
             before |-> agentMetrics]
  /\ UNCHANGED <<now, agents, logs, tokens, snapshots, signal, metric,
                 comments, reactions, ethPriceCache>>

\* lines 329-348: the three metrics of one agent are computed from what is
\* stored now and written to its row
RecalcAgent ==
  /\ job.pc = "agents" /\ job.i <= Len(job.list)
  /\ LET id == job.list[job.i]
     IN /\ agents' = [agents EXCEPT
                        ![id].engagement_rate = calculateAgentEngagementRate(id),
                        ![id].growth_trend = calculateGrowthTrend(id, 7),
                        ![id].audience_score = calculateAudienceScore(id)]
        /\ job' = afterSuccess(job, id)
  /\ UNCHANGED <<now, logs, tokens, snapshots, signal, metric, comments,
                 reactions, ethPriceCache>>

\* lines 331-345: one of the awaits of the agent's body throws
RecalcAgentThrows ==
  /\ job.pc = "agents" /\ job.i <= Len(job.list)
  /\ job' = recalcRejected(job, job.list[job.i])
  /\ UNCHANGED <<now, agents, logs, tokens, snapshots, signal, metric,
                 comments, reactions, ethPriceCache>>

\* lines 350-356: after the last agent the posts are read
StartRecalcLogs(list) ==
  /\ job.pc = "agents" /\ job.i > Len(job.list)
  /\ job' = [job EXCEPT !.pc = "logs", !.list = list, !.i = 1,
                        !.attempted = <<>>] @@
            [agentsAttempted |-> job.attempted]
  /\ UNCHANGED <<now, agents, logs, tokens, snapshots, signal, metric,
                 comments, reactions, ethPriceCache>>

\* lines 356-363: the quality score of one post is computed and written
RecalcLog ==
  /\ job.pc = "logs" /\ job.i <= Len(job.list)
  /\ LET id == job.list[job.i]
     IN /\ logs' = [logs EXCEPT ![id].quality_score = calculateQualityScore(id)]
        /\ job' = afterSuccess(job, id)
  /\ UNCHANGED <<now, agents, tokens, snapshots, signal, metric, comments,
                 reactions, ethPriceCache>>

\* lines 357-361: one of the awaits of the post's body throws
RecalcLogThrows ==
  /\ job.pc = "logs" /\ job.i <= Len(job.list)
  /\ job' = recalcRejected(job, job.list[job.i])
  /\ UNCHANGED <<now, agents, logs, tokens, snapshots, signal, metric,
                 comments, reactions, ethPriceCache>>

\* line 366: the counts are returned
FinishRecalc ==
  /\ job.pc = "logs" /\ job.i > Len(job.list)
  /\ job' = [pc |-> "idle",
             history |-> Append(job.history,
               [kind |-> "recalc", rejected |-> FALSE, at |-> now,
                agentList |-> job.agentList,
                agentsAttempted |-> job.agentsAttempted,
                logsAttempted |-> job.attempted,
                before |-> job.before, after |-> agentMetrics,
                qualityAfter |-> qualityScores])]
  /\ UNCHANGED <<now, agents, logs, tokens, snapshots, signal, metric,
                 comments, reactions, ethPriceCache>>

NextRecalc ==
  \/ \E list \in Orders(DOMAIN agents) : StartRecalc(list)
  \/ RecalcAgent
  \/ RecalcAgentThrows
  \/ \E list \in Orders(1..Len(logs)) : StartRecalcLogs(list)
  \/ RecalcLog
  \/ RecalcLogThrows
  \/ FinishRecalc

SpecRecalc == InitRecalc /\ [][NextRecalc]_vars

(***************************************************************************)
(* Claims about recalculateAllAnalytics                                    *)
(***************************************************************************)
Recalcs == {job.history[k] : k \in 1..Len(job.history)}

SeqRange(q) == {q[k] : k \in 1..Len(q)}

\* C17: in recalculateAllAnalytics a failure while computing or writing
\* one agent's metrics or one post's quality score does not stop the job:
\* every agent of the list and every post is still processed.
C17_FailureDoesNotStopRecalc ==
  \A run \in Recalcs :
    /\ run.agentsAttempted = run.agentList
    /\ SeqRange(run.logsAttempted) = 1..Len(logs)

\* C17, the part that holds: a run stops at its first failure, and every
\* item before it was processed.
C17_RecalcStopsAtFirstFailure ==
  \A run \in Recalcs :
    run.rejected =>
      \/ /\ Len(run.agentsAttempted) <= Len(run.agentList)
         /\ run.agentsAttempted = SubSeq(run.agentList, 1, Len(run.agentsAttempted))
         /\ run.logsAttempted = <<>>
      \/ /\ run.agentsAttempted = run.agentList
         /\ Cardinality(SeqRange(run.logsAttempted)) <= Len(logs)

\* the audience score of the subject with every engager's rate taken from
\* the posts: mean over the reaction and comment rows, times 1000, capped
AudienceFromActivity(subject) ==
  LET w1 == EngagementsBy("a1", subject)
      w2 == EngagementsBy("a2", subject)
  IN ScaledAndCapped(
       RatAdd(RatMul(R(w1), calculateAgentEngagementRate("a1")),
              RatMul(R(w2), calculateAgentEngagementRate("a2"))),
       w1 + w2)

\* the three metrics of every agent as the posts, reactions and comments
\* alone give them
MetricsFromActivity ==
  [a \in DOMAIN agents |->
     [engagement_rate |-> calculateAgentEngagementRate(a),
      growth_trend |-> calculateGrowthTrend(a, 7),
      audience_score |-> AudienceFromActivity(a)]]

\* C19: after one complete run of recalculateAllAnalytics with no
\* concurrent activity every agent's stored engagement_rate, growth_trend
\* and audience_score are what the activity records alone give, whatever
\* was stored before the run and whatever the order of the agents.
C19_MetricsFromActivityAfterOneRun ==
  \A run \in Recalcs : ~run.rejected => run.after = MetricsFromActivity

\* C19, the part that holds: the engagement rate and the growth trend are
\* the activity's after one complete run, and the audience score is after
\* a second complete run that directly follows a complete first one.
C19_MetricsFromActivityAfterTwoRuns ==
  /\ \A run \in Recalcs : ~run.rejected =>
       \A a \in DOMAIN agents :
         /\ run.after[a].engagement_rate = MetricsFromActivity[a].engagement_rate
         /\ run.after[a].growth_trend = MetricsFromActivity[a].growth_trend
  /\ \A k \in 1..(Len(job.history) - 1) :
       (~job.history[k].rejected /\ ~job.history[k + 1].rejected)
         => job.history[k + 1].after = MetricsFromActivity

(***************************************************************************)
(* The primary flag: linkToken, unlinkToken, setPrimaryToken (tokens.ts)   *)
(***************************************************************************)
\* update({ is_primary: false }).eq('agent_id', agentId)
unsetPrimary(rows, agentId) ==
  {IF t.agent_id = agentId THEN [t EXCEPT !.is_primary = FALSE] ELSE t : t \in rows}

\* update({ is_primary: true }).eq('id', tokenId).eq('agent_id', agentId)
setPrimary(rows, tokenId, agentId) ==
  {IF t.id = tokenId /\ t.agent_id = agentId THEN [t EXCEPT !.is_primary = TRUE]
   ELSE t : t \in rows}

\* delete().eq('id', tokenId).eq('agent_id', agentId)
deleteToken(rows, tokenId, agentId) ==
  {t \in rows : ~(t.id = tokenId /\ t.agent_id = agentId)}

(***************************************************************************)
(* Specification SpecPrimary: requests that call linkToken, unlinkToken    *)
(* and setPrimaryToken concurrently.  A call is suspended at each await,   *)
(* and the statements of the other requests run in between.                *)
(***************************************************************************)
\* the largest number of calls
MaxCalls == 4

Requests == {"r1", "r2"}

\* a call starts: it is counted, and it is noted whether another call is
\* under way
callStarted(r) ==
  [metric EXCEPT !.calls = @ + 1,
                 !.overlapped = @ \/ \E o \in Requests \ {r} : job[o].pc # "idle"]

InitPrimary ==
  /\ now = 100
  /\ agents = [x \in AgentIds |-> AgentRow(TRUE, FALSE, FALSE, FALSE, R(0), R(0), R(0))]
  /\ logs = <<>>
  /\ tokens = {TokenRow(1, "a1", TRUE, "none"), TokenRow(2, "a1", FALSE, "none")}
  /\ snapshots = {}
  /\ signal = NoSignal
  /\ job = [r \in Requests |-> NoJob]
  /\ metric = [kind |-> "calls", calls |-> 0, nextId |-> 3, overlapped |-> FALSE]
  /\ comments = {}
  /\ reactions = {}
  /\ ethPriceCache = NoCache

\* linkToken, lines 41-48: with isPrimary the agent's tokens are unset
\* first, and the call waits for that statement
LinkTokenUnset(r, agentId, isPrimary) ==
  /\ job[r].pc = "idle" /\ metric.calls < MaxCalls
  /\ tokens' = IF isPrimary THEN unsetPrimary(tokens, agentId) ELSE tokens
  /\ job' = [job EXCEPT ![r] = [pc |-> "insert", agentId |-> agentId,
                                isPrimary |-> isPrimary]]
  /\ metric' = callStarted(r)
  /\ UNCHANGED <<now, agents, logs, snapshots, signal, comments, reactions,
                 ethPriceCache>>

\* linkToken, lines 49-62: the row is inserted with is_primary as asked.
\* What follows (token_count, the first snapshot) leaves the flag alone.
LinkTokenInsert(r) ==
  /\ job[r].pc = "insert"
  /\ tokens' = tokens \cup
       {TokenRow(metric.nextId, job[r].agentId, job[r].isPrimary, "none")}
  /\ metric' = [metric EXCEPT !.nextId = @ + 1]
  /\ job' = [job EXCEPT ![r] = NoJob]
  /\ UNCHANGED <<now, agents, logs, snapshots, signal, comments, reactions,
                 ethPriceCache>>

\* linkToken, lines 64-69: the insert returns an error (23505 or another)
LinkTokenInsertFails(r) ==
  /\ job[r].pc = "insert"
  /\ job' = [job EXCEPT ![r] = NoJob]
  /\ UNCHANGED <<now, agents, logs, tokens, snapshots, signal, metric,
                 comments, reactions, ethPriceCache>>

\* unlinkToken, lines 91-95: the row is deleted.  What follows
\* (token_count) leaves the flag alone.
UnlinkToken(r, tokenId, agentId) ==
  /\ job[r].pc = "idle" /\ metric.calls < MaxCalls
  /\ tokens' = deleteToken(tokens, tokenId, agentId)
  /\ metric' = callStarted(r)
  /\ UNCHANGED <<now, agents, logs, snapshots, signal, job, comments,
                 reactions, ethPriceCache>>

\* setPrimaryToken, lines 193-196: the agent's tokens are unset, and the
\* call waits for that statement
SetPrimaryUnset(r, tokenId, agentId) ==
  /\ job[r].pc = "idle" /\ metric.calls < MaxCalls
  /\ tokens' = unsetPrimary(tokens, agentId)
  /\ job' = [job EXCEPT ![r] = [pc |-> "set", tokenId |-> tokenId,
                                agentId |-> agentId]]
  /\ metric' = callStarted(r)
  /\ UNCHANGED <<now, agents, logs, snapshots, signal, comments, reactions,
                 ethPriceCache>>

\* setPrimaryToken, lines 199-209: the token is set, if the agent still
\* has it
SetPrimarySet(r) ==
  /\ job[r].pc = "set"
  /\ tokens' = setPrimary(tokens, job[r].tokenId, job[r].agentId)
  /\ job' = [job EXCEPT ![r] = NoJob]
  /\ UNCHANGED <<now, agents, logs, snapshots, signal, metric, comments,
                 reactions, ethPriceCache>>

NextPrimary ==
  \/ \E r \in Requests, agentId \in AgentIds, isPrimary \in BOOLEAN :
       LinkTokenUnset(r, agentId, isPrimary)
  \/ \E r \in Requests : LinkTokenInsert(r)
  \/ \E r \in Requests : LinkTokenInsertFails(r)
  \/ \E r \in Requests, agentId \in AgentIds, tokenId \in {t.id : t \in tokens} :
       UnlinkToken(r, tokenId, agentId)
  \/ \E r \in Requests, agentId \in AgentIds, tokenId \in {t.id : t \in tokens} :
       SetPrimaryUnset(r, tokenId, agentId)
  \/ \E r \in Requests : SetPrimarySet(r)

SpecPrimary == InitPrimary /\ [][NextPrimary]_vars

(***************************************************************************)
(* Claims about the primary flag                                           *)
(***************************************************************************)
PrimariesOf(agentId) == {t \in tokens : t.agent_id = agentId /\ t.is_primary}

\* C20: in every reachable state, the intermediate states of any
\* interleaving of concurrent linkToken (with isPrimary), setPrimaryToken
\* and unlinkToken calls included, each agent has at most one token whose
\* is_primary flag is true.
C20_AtMostOnePrimary ==
  \A a \in AgentIds : Cardinality(PrimariesOf(a)) <= 1

\* C20, the part that holds: as long as no call started while another was
\* under way, each agent has at most one primary token.
C20_AtMostOnePrimaryOneAtATime ==
  ~metric.overlapped => \A a \in AgentIds : Cardinality(PrimariesOf(a)) <= 1

(***************************************************************************)
(* Claims about the token score's snapshot                                 *)
(***************************************************************************)
\* the tokens of the agent whose is_primary flag is true
FlaggedPrimary(agentId) == {t \in tokens : t.agent_id = agentId /\ t.is_primary}

\* the snapshots with the greatest capture time among those of the tokens
\* flagged as the agent's primary token
PrimaryLatest(agentId) ==
  LET rows == {s \in snapshots : \E t \in FlaggedPrimary(agentId) : s.token_id = t.id}
  IN {s \in rows : \A o \in rows : o.token_id = s.token_id => o.snapshot_at <= s.snapshot_at}

\* C24: the token score of an agent is a function of one snapshot only, the
\* snapshot with the greatest capture time of the token flagged as the
\* agent's primary token; older snapshots and snapshots of the agent's
\* other tokens never influence it, and it is 0 when the agent has no
\* primary token or that token has no snapshot.
C24_TokenScoreFromPrimaryLatest ==
  Computed =>
    IF PrimaryLatest(signal.agent) = {} THEN Components.tokenScore = R(0)
    ELSE \E s \in PrimaryLatest(signal.agent) : Components.tokenScore = snapshotScore(s)

\* C24, the part that holds: for an agent with a token flagged primary, or
\* with no token at all, the token score is the score of the latest
\* snapshot of the primary token, and 0 without such a snapshot.
C24_TokenScoreWithPrimaryFlag ==
  (Computed /\ (FlaggedPrimary(signal.agent) # {}
                  \/ \A t \in tokens : t.agent_id # signal.agent)) =>
    IF PrimaryLatest(signal.agent) = {} THEN Components.tokenScore = R(0)
    ELSE \E s \in PrimaryLatest(signal.agent) : Components.tokenScore = snapshotScore(s)

(***************************************************************************)
(* Specification SpecStore: the three batch jobs, one run at a time, with  *)
(* the request handlers that write (linkToken, unlinkToken,                *)
(* setPrimaryToken, addReaction, addComment) called between the items of   *)
(* a run.  A handler call is one step here.                                *)
(***************************************************************************)
\* the largest number of job runs and handler calls together
MaxStoreOps == 2

\* the job runs and handler calls so far
storeOps == Len(job.history) + metric.calls

\* the ids the database gives to the tokens linked by the calls
NewTokenIds == <<"t3", "t4", "t5", "t6">>

GhostToken == "ghost"

\* the row recordTokenSnapshot inserts for data
snapshotOf(tokenId, data) ==
  SnapshotRow(tokenId, nextSnapshotAt, data.priceUsd, data.marketCap,
              data.holders, data.volume24h, data.liquidity, data.priceChange24h)

InitStore ==
  /\ now = JobStart
  /\ agents = [x \in AgentIds |->
                 [AgentRow(x = "a1", FALSE, FALSE, FALSE, Rat(3, 100), R(10), R(20))
                    EXCEPT !.signal_score = R(50)]]
  /\ logs = <<LogRow("a1", JobStart - 3, R(80), 10, 1, 0, 0, 0, 0, 1)>>
  /\ reactions = {ReactionRow(1, "a2", "fire")}
  /\ comments = {CommentRow(1, 1, <<>>, "a2", 40)}
  /\ tokens = {TokenRow("t1", "a1", TRUE, "uniswap_v4")}
  /\ snapshots = {SnapshotRow("t1", 1, 2, 5000000, 500, 10000, 50000, 0)}
  /\ signal = NoSignal
  /\ job = [pc |-> "idle", history |-> <<>>]
  /\ metric = [kind |-> "none", calls |-> 0]
  /\ ethPriceCache = NoCache

\* linkToken(env, params), lines 26-82: the unset with isPrimary, the
\* insert, and the initial snapshot, whose failure is caught
StoreLinkToken(agentId, isPrimary) ==
  /\ storeOps + (IF job.pc = "idle" THEN 0 ELSE 1) < MaxStoreOps
  /\ LET id == NewTokenIds[metric.calls + 1]
         unset == IF isPrimary THEN unsetPrimary(tokens, agentId) ELSE tokens
     IN \/ /\ tokens' = unset \cup {TokenRow(id, agentId, isPrimary, "none")}
           /\ \/ \E fetched \in JobFetchSamples :
                   snapshots' = snapshots \cup {snapshotOf(id, fetched)}
              \/ snapshots' = snapshots
           /\ metric' = [kind |-> "linkToken", calls |-> metric.calls + 1,
                         tokenId |-> id, agentId |-> agentId, success |-> TRUE,
                         before |-> tokens]
        \/ /\ tokens' = unset
           /\ snapshots' = snapshots
           /\ metric' = [kind |-> "linkToken", calls |-> metric.calls + 1,
                         tokenId |-> id, agentId |-> agentId, success |-> FALSE,
                         before |-> tokens]
  /\ UNCHANGED <<now, agents, logs, signal, job, comments, reactions,
                 ethPriceCache>>

\* unlinkToken(env, tokenId, agentId), lines 84-119
StoreUnlinkToken(tokenId, agentId) ==
  /\ storeOps + (IF job.pc = "idle" THEN 0 ELSE 1) < MaxStoreOps
  /\ tokens' = deleteToken(tokens, tokenId, agentId)
  /\ metric' = [kind |-> "unlinkToken", calls |-> metric.calls + 1,
                tokenId |-> tokenId, agentId |-> agentId,
                success |-> TRUE, before |-> tokens]
  /\ UNCHANGED <<now, agents, logs, snapshots, signal, job, comments,
                 reactions, ethPriceCache>>

\* setPrimaryToken(env, tokenId, agentId), lines 185-210: the unset, then
\* the set, whose error alone decides what is returned
StoreSetPrimaryToken(tokenId, agentId) ==
  /\ storeOps + (IF job.pc = "idle" THEN 0 ELSE 1) < MaxStoreOps
  /\ \/ /\ tokens' = setPrimary(unsetPrimary(tokens, agentId), tokenId, agentId)
        /\ metric' = [kind |-> "setPrimaryToken", calls |-> metric.calls + 1,
                      tokenId |-> tokenId, agentId |-> agentId,
                      success |-> TRUE, before |-> tokens]
     \/ /\ tokens' = unsetPrimary(tokens, agentId)
        /\ metric' = [kind |-> "setPrimaryToken", calls |-> metric.calls + 1,
                      tokenId |-> tokenId, agentId |-> agentId,
                      success |-> FALSE, before |-> tokens]
  /\ UNCHANGED <<now, agents, logs, snapshots, signal, job, comments,
                 reactions, ethPriceCache>>

NextStore ==
  \/ /\ storeOps < MaxStoreOps
     /\ \/ \E list \in Orders({a \in DOMAIN agents : agents[a].erc8004_agent_id}) :
             StartSignals(list)
        \/ \E list \in Orders(tokens) : StartSnapshots(list)
        \/ \E list \in Orders(DOMAIN agents) : StartRecalc(list)
  \/ SignalItem
  \/ SignalItemThrows
  \/ SnapshotItem
  \/ SnapshotItemThrows
  \/ FinishJob
  \/ RecalcAgent
  \/ RecalcAgentThrows
  \/ \E list \in Orders(1..Len(logs)) : StartRecalcLogs(list)
  \/ RecalcLog
  \/ RecalcLogThrows
  \/ FinishRecalc
  \/ \E isPrimary \in BOOLEAN : StoreLinkToken("a1", isPrimary)
  \/ \E tokenId \in {t.id : t \in tokens} : StoreUnlinkToken(tokenId, "a1")
  \/ \E tokenId \in {t.id : t \in tokens} \cup {GhostToken} :
       StoreSetPrimaryToken(tokenId, "a1")
  \/ AddReaction(1, "a1", "claw")
  \/ AddComment(1, "a1", <<>>, 20)

SpecStore == InitStore /\ [][NextStore]_vars

(***************************************************************************)
(* Claims about what the jobs and the handlers write                       *)
(***************************************************************************)
SnapshotRuns == {run \in Runs : run.kind = "snapshots"}

\* the rows a finished run added for token x
AddedFor(run, x) == {row \in run.after \ run.before : row.token_id = x}

\* every finished refresh run took each token of its list once and added
\* one row for each token that did not fail, none for a failed one
OneRowPerToken ==
  \A run \in SnapshotRuns :
    /\ run.attempted = run.list
    /\ \A x \in SeqRange(run.list) :
         Cardinality(AddedFor(run, x)) = IF x \in run.failed THEN 0 ELSE 1

\* a step of the refresh job adds one new row for the token it processed
\* without failure and nothing else; a step of another job adds nothing;
\* of the handlers only linkToken adds a row, for the token it linked; and
\* no step changes or removes a stored row
AppendOnlyStep ==
  /\ snapshots \subseteq snapshots'
  /\ (job' # job /\ job.pc # "snapshots") => snapshots' = snapshots
  /\ (job' # job /\ job.pc = "snapshots") =>
       IF job'.pc = "snapshots" /\ job.list[job.i].id \notin job'.failed
         THEN \E row \in snapshots' \ snapshots :
                /\ row.token_id = job.list[job.i].id
                /\ snapshots' = snapshots \cup {row}
       ELSE snapshots' = snapshots
  /\ job' = job =>
       \A row \in snapshots' \ snapshots :
         /\ metric'.kind = "linkToken" /\ metric'.calls = metric.calls + 1
         /\ row.token_id = metric'.tokenId

\* C21: the snapshot store is append-only: no operation (recordTokenSnapshot,
\* linkToken, unlinkToken, setPrimaryToken or any batch job) changes or
\* deletes a snapshot once inserted, and one run of the snapshot-refresh
\* job inserts exactly one new snapshot for every token of its list whose
\* processing did not fail and none for any other token.
C21_SnapshotsAppendOnly == []OneRowPerToken /\ [][AppendOnlyStep]_vars

\* a refresh run over two tokens, one linked by a call before it, stored a
\* row for one and failed on the other, and a token with a snapshot was
\* unlinked, its row staying
C21_Witness ==
  /\ \E run \in SnapshotRuns :
       /\ Len(run.list) = 2 /\ Cardinality(run.failed) = 1
       /\ Cardinality(run.after \ run.before) = 1
  /\ metric.kind = "linkToken"

\* an unlinked token's rows stay in the store
C21_WitnessUnlinked ==
  /\ metric.kind = "unlinkToken"
  /\ \E row \in snapshots : \A t \in tokens : t.id # row.token_id

\* a step of updateAllSignalScores changes nothing but the signal_score of
\* agents with a linked identity; engagement_rate, growth_trend and
\* audience_score change only in the agent loop of recalculateAllAnalytics
\* and quality_score only in its post loop
OwnFieldsStep ==
  /\ (job' # job /\ job.pc = "signals") =>
       /\ \A a \in DOMAIN agents :
            /\ agents'[a] = [agents[a] EXCEPT !.signal_score = agents'[a].signal_score]
            /\ ~agents[a].erc8004_agent_id => agents'[a] = agents[a]
       /\ logs' = logs /\ tokens' = tokens /\ snapshots' = snapshots
  /\ \A a \in DOMAIN agents :
       (\/ agents'[a].engagement_rate # agents[a].engagement_rate
        \/ agents'[a].growth_trend # agents[a].growth_trend
        \/ agents'[a].audience_score # agents[a].audience_score)
         => (job.pc = "agents" /\ job' # job /\ job.list[job.i] = a)
  /\ \A i \in 1..Len(logs) :
       logs'[i].quality_score # logs[i].quality_score
         => (job.pc = "logs" /\ job' # job /\ job.list[job.i] = i)

\* C27: updateAllSignalScores writes nothing but the signal_score of
\* identity-verified agents: an agent without a linked on-chain identity
\* keeps its stored signal_score, and no agent's engagement_rate,
\* growth_trend, audience_score, post quality score, token or snapshot is
\* changed by the job; likewise only recalculateAllAnalytics ever writes
\* engagement_rate, growth_trend, audience_score and quality_score.
C27_JobsWriteOwnFields == [][OwnFieldsStep]_vars

\* a run of updateAllSignalScores changed the score of the verified agent
\* and left the unverified one its stored 50, and a reaction was added by
\* the handler
C27_Witness ==
  /\ \E run \in Runs :
       /\ run.kind = "signals" /\ run.failed = {}
       /\ run.after["a1"] # run.before["a1"]
       /\ run.after["a2"] = R(50)
  /\ ~agents["a2"].erc8004_agent_id
  /\ Cardinality(reactions) = 2

\* recalculateAllAnalytics rewrote the three metrics of an agent and the
\* quality score of a post
C27_WitnessRecalc ==
  \E run \in Runs :
    /\ run.kind = "recalc" /\ ~run.rejected
    /\ run.after # run.before
    /\ run.qualityAfter[1] # R(80)

\* the last call was setPrimaryToken
SetPrimaryReturned == metric.kind = "setPrimaryToken"

OwnedBefore == \E t \in metric.before : t.id = metric.tokenId /\ t.agent_id = metric.agentId

\* C29: whenever setPrimaryToken(tokenId, agentId) returns success, tokenId
\* is afterwards the agent's one primary token; when tokenId is not a token
\* of that agent (or does not exist), the call changes no token's primary
\* flag.
C29_SetPrimaryToken ==
  SetPrimaryReturned =>
    /\ metric.success =>
         {t.id : t \in PrimariesOf(metric.agentId)} = {metric.tokenId}
    /\ ~OwnedBefore => tokens = metric.before

\* C29, the part that holds: a successful call for a token of the agent
\* leaves that token as the agent's one primary token, and no call changes
\* a flag of a token of another agent.
C29_SetPrimaryOwnToken ==
  SetPrimaryReturned =>
    /\ (metric.success /\ OwnedBefore) =>
         {t.id : t \in PrimariesOf(metric.agentId)} = {metric.tokenId}
    /\ {t \in tokens : t.agent_id # metric.agentId}
         = {t \in metric.before : t.agent_id # metric.agentId}

(***************************************************************************)
(* Specification SpecDecimals: tokens of the known Uniswap V4 pool linked  *)
(* with a decimal count, their initial snapshot and the snapshots of the   *)
(* refresh job.  The rows of agent_tokens carry the decimals column here.  *)
(***************************************************************************)
\* the largest number of snapshots stored
MaxDecSnapshots == 3

\* decimals ?? 18, the 18 scaled as WethDecimals is
DefaultDecimals == WethDecimals

\* fetchTokenData's decimals argument for recordTokenSnapshot's optional
\* parameter: <<>> when the caller passed none
decimalsOrDefault(decimals) ==
  IF decimals = <<>> THEN DefaultDecimals ELSE decimals[1]

\* the decimals recordTokenSnapshot hands to fetchTokenData for token
decimalsUsed(token, decimals) == decimalsOrDefault(decimals)

\* what fetchTokenData merges for a V4 read of slot and supply, a pools
\* result without a price (so price and market cap are the pool read's:
\* it is the first of the results) and the holder result
decimalsData(decimals, slot, ethPrice, supply, pools, info) ==
  LET v4 == v4TokenData(slot, decimals, ethPrice, supply)
      rest == mergeResults(<<pools, info>>)
  IN [rest EXCEPT !.priceUsd = v4.priceUsd, !.marketCap = v4.marketCap]

DecSlotSamples == {1, 16, 24}

DecSupplySamples == {25000}

DecEthSamples == {parseEthPrice(16)}

DecPoolsSamples == {NoData, [volume24h |-> 10000, liquidity |-> 50000]}

DecInfoSamples == {[holders |-> 0], [holders |-> 500]}

InitDecimals ==
  /\ now = 1
  /\ agents = [x \in AgentIds |-> OtherAgent]
  /\ logs = <<>>
  /\ tokens = {}
  /\ snapshots = {}
  /\ signal = NoSignal
  /\ job = NoJob
  /\ metric = NoMetric
  /\ comments = {}
  /\ reactions = {}
  /\ ethPriceCache = NoCache

\* recordTokenSnapshot(env, token.id, chain, address, decimals) with the
\* adapters' results given
RecordWithDecimals(kind, token, decimals, slot, ethPrice, supply, pools, info) ==
  LET used == decimalsUsed(token, decimals)
      data == decimalsData(used, slot, ethPrice, supply, pools, info)
  IN \E carried \in carryForward(data, token.id) :
       /\ snapshots' = snapshots \cup {snapshotOf(token.id, carried)}
       /\ metric' = [kind |-> kind, token |-> token, slot |-> slot,
                     ethPrice |-> ethPrice, supply |-> supply, pools |-> pools,
                     info |-> info, row |-> snapshotOf(token.id, carried)]

\* linkToken with decimals d: the row is inserted and the initial snapshot
\* recorded, lines 49-79
DecLinkToken(d, slot, ethPrice, supply, pools, info) ==
  /\ Cardinality(snapshots) < MaxDecSnapshots
  /\ tokens = {}
  /\ LET token == TokenRow("t1", "a1", FALSE, "uniswap_v4") @@ [decimals |-> d]
     IN /\ tokens' = tokens \cup {token}
        /\ RecordWithDecimals("initial", token, <<>>, slot, ethPrice, supply,
                              pools, info)
  /\ UNCHANGED <<now, agents, logs, signal, job, comments, reactions,
                 ethPriceCache>>

\* one pass of the refresh loop for token, part_011 line 944
DecRefresh(token, slot, ethPrice, supply, pools, info) ==
  /\ Cardinality(snapshots) < MaxDecSnapshots
  /\ RecordWithDecimals("refresh", token, <<token.decimals>>, slot, ethPrice,
                        supply, pools, info)
  /\ UNCHANGED <<now, agents, logs, tokens, signal, job, comments, reactions,
                 ethPriceCache>>

NextDecimals ==
  \/ \E d \in DecimalSamples, slot \in DecSlotSamples, ethPrice \in DecEthSamples,
        supply \in DecSupplySamples, pools \in DecPoolsSamples,
        info \in DecInfoSamples :
       DecLinkToken(d, slot, ethPrice, supply, pools, info)
  \/ \E token \in tokens, slot \in DecSlotSamples, ethPrice \in DecEthSamples,
        supply \in DecSupplySamples, pools \in DecPoolsSamples,
        info \in DecInfoSamples :
       DecRefresh(token, slot, ethPrice, supply, pools, info)

SpecDecimals == InitDecimals /\ [][NextDecimals]_vars

(***************************************************************************)
(* Claims about the decimals a snapshot is derived with                    *)
(***************************************************************************)
\* price and market cap of the last inserted row were derived with decimals d
DerivedWith(d) ==
  LET data == decimalsData(d, metric.slot, metric.ethPrice, metric.supply,
                           metric.pools, metric.info)
  IN /\ metric.row.price_usd = data.priceUsd
     /\ metric.row.market_cap = data.marketCap

\* C28: every snapshot is derived with the token's registered decimals,
\* the initial snapshot linkToken records included: for a token linked with
\* decimals d other than 18 the initial on-chain price uses d, not 18.
C28_RegisteredDecimals ==
  metric.kind \in {"initial", "refresh"} => DerivedWith(metric.token.decimals)

\* C28, the part that holds: the snapshots of the refresh job are derived
\* with the registered decimals, and the initial snapshot with 18.
C28_RefreshUsesRegisteredDecimals ==
  /\ metric.kind = "refresh" => DerivedWith(metric.token.decimals)
  /\ metric.kind = "initial" => DerivedWith(DefaultDecimals)

(***************************************************************************)
(* Specification SpecTick: one invocation of the scheduled handler.  The   *)
(* snapshot loop is awaited; updateAllSignalScores and                     *)
(* recalculateAllAnalytics are handed to ctx.waitUntil and run on their    *)
(* own, interleaved with each other.  job.sig is the signal task and       *)
(* job.rec the analytics task.                                             *)
(***************************************************************************)
TaskOff == [pc |-> "off"]

\* the snapshot loop taken as over as soon as it has begun
loopNotAwaited(j) == j.pc = "loop"

\* the snapshot loop of the handler is over (the handler awaits it)
loopOver(j) == j.pc = "loop" /\ j.i > Len(j.list)

\* what the signal task notes about the computation for agent id
usedBy(id, r) ==
  [tokenScore |-> r.components.tokenScore,
   metricsWritten |-> job.rec.pc \in {"agents", "logs", "done", "rejected"}
                        /\ id \in job.rec.agentsDone,
   qualityWritten |-> job.rec.pc \in {"agents", "logs", "done", "rejected"}
                        /\ \A i \in 1..Len(logs) :
                             logs[i].agent_id = id => i \in job.rec.logsDone]

InitTick ==
  /\ now = JobStart
  /\ agents = [x \in AgentIds |->
                 [AgentRow(TRUE, FALSE, FALSE, FALSE, Rat(3, 100), R(10), R(20))
                    EXCEPT !.signal_score = R(50)]]
  /\ logs = <<LogRow("a1", JobStart - 3, R(80), 10, 1, 0, 0, 0, 0, 0)>>
  /\ reactions = {ReactionRow(1, "a2", "fire")}
  /\ comments = {}
  /\ tokens = {TokenRow("t1", "a1", TRUE, "uniswap_v4"),
               TokenRow("t2", "a2", TRUE, "none")}
  /\ snapshots = {SnapshotRow("t1", 1, 2, 5000000, 500, 10000, 50000, 0),
                  SnapshotRow("t2", 2, 9, 200000000, 5000, 90000, 900000, 1)}
  /\ signal = NoSignal
  /\ job = [pc |-> "idle"]
  /\ metric = NoMetric
  /\ ethPriceCache = NoCache

\* scheduled is invoked at a minute and an hour (lines 933-941): the
\* linked tokens are read
TickStart(minute0, hour0, list) ==
  /\ job.pc = "idle"
  /\ job' = [pc |-> "loop", minute0 |-> minute0, hour0 |-> hour0,
             list |-> list, i |-> 1, attempted |-> <<>>, failed |-> {},
             before |-> snapshots, sig |-> TaskOff, rec |-> TaskOff]
  /\ UNCHANGED <<now, agents, logs, tokens, snapshots, signal, metric,
                 comments, reactions, ethPriceCache>>

\* lines 942-944: recordTokenSnapshot completes for the next token
TickSnapshot ==
  /\ job.pc = "loop" /\ job.i <= Len(job.list)
  /\ LET token == job.list[job.i]
     IN /\ \E fetched \in JobFetchSamples :
             \E data \in (IF fetched.holders = 0
                            THEN carryForward(fetched, token.id)
                          ELSE {fetched}) :
               snapshots' = snapshots \cup {snapshotOf(token.id, data)}
        /\ job' = afterSuccess(job, token.id)
  /\ UNCHANGED <<now, agents, logs, tokens, signal, metric, comments,
                 reactions, ethPriceCache>>

\* lines 945-947: recordTokenSnapshot throws for the next token
TickSnapshotThrows ==
  /\ job.pc = "loop" /\ job.i <= Len(job.list)
  /\ job' = afterFailure(job, job.list[job.i].id)
  /\ UNCHANGED <<now, agents, logs, tokens, snapshots, signal, metric,
                 comments, reactions, ethPriceCache>>

\* lines 951-963: after the loop the two tasks are started, the signal
\* task first, and the handler returns without awaiting them
TickLaunch ==
  /\ loopOver(job)
  /\ job' = [job EXCEPT
               !.pc = "returned",
               !.sig = IF job.minute0 THEN [pc |-> "start"] ELSE TaskOff,
               !.rec = IF job.minute0 /\ job.hour0 THEN [pc |-> "start"] ELSE TaskOff]
  /\ UNCHANGED <<now, agents, logs, tokens, snapshots, signal, metric,
                 comments, reactions, ethPriceCache>>

\* updateAllSignalScores reads the agents with a linked identity
TickSignalsRead(list) ==
  /\ job.pc = "returned" /\ job.sig.pc = "start"
  /\ job' = [job EXCEPT !.sig = [pc |-> "run", list |-> list, i |-> 1,
                                 attempted |-> <<>>, failed |-> {},
                                 used |-> [a \in {} |-> 0]]]
  /\ UNCHANGED <<now, agents, logs, tokens, snapshots, signal, metric,
                 comments, reactions, ethPriceCache>>

\* the score of the next agent is calculated from what is stored now and
\* written
TickSignal ==
  /\ job.pc = "returned" /\ job.sig.pc = "run" /\ job.sig.i <= Len(job.sig.list)
  /\ LET id == job.sig.list[job.sig.i]
     IN \E r \in calculateSignalScore(id) :
          /\ signal' = r
          /\ agents' = [agents EXCEPT ![id].signal_score = r.score]
          /\ job' = [job EXCEPT
                       !.sig = [afterSuccess(job.sig, id) EXCEPT
                                  !.used = @ @@ (id :> usedBy(id, r))]]
  /\ UNCHANGED <<now, logs, tokens, snapshots, metric, comments, reactions,
                 ethPriceCache>>

\* calculateSignalScore or the update throws for the next agent
TickSignalThrows ==
  /\ job.pc = "returned" /\ job.sig.pc = "run" /\ job.sig.i <= Len(job.sig.list)
  /\ job' = [job EXCEPT !.sig = afterFailure(job.sig, job.sig.list[job.sig.i])]
  /\ UNCHANGED <<now, agents, logs, tokens, snapshots, signal, metric,
                 comments, reactions, ethPriceCache>>

\* updateAllSignalScores returns
TickSignalsDone ==
  /\ job.pc = "returned" /\ job.sig.pc = "run" /\ job.sig.i > Len(job.sig.list)
  /\ job' = [job EXCEPT !.sig.pc = "done"]
  /\ UNCHANGED <<now, agents, logs, tokens, snapshots, signal, metric,
                 comments, reactions, ethPriceCache>>

\* recalculateAllAnalytics reads the agents
TickRecalcRead(list) ==
  /\ job.pc = "returned" /\ job.rec.pc = "start"
  /\ job' = [job EXCEPT !.rec = [pc |-> "agents", list |-> list, i |-> 1,
                                 agentsDone |-> {}, logsDone |-> {}]]
  /\ UNCHANGED <<now, agents, logs, tokens, snapshots, signal, metric,
                 comments, reactions, ethPriceCache>>

\* the three metrics of the next agent are computed and written
TickRecalcAgent ==
  /\ job.pc = "returned" /\ job.rec.pc = "agents" /\ job.rec.i <= Len(job.rec.list)
  /\ LET id == job.rec.list[job.rec.i]
     IN /\ agents' = [agents EXCEPT
                        ![id].engagement_rate = calculateAgentEngagementRate(id),
                        ![id].growth_trend = calculateGrowthTrend(id, 7),
                        ![id].audience_score = calculateAudienceScore(id)]
        /\ job' = [job EXCEPT !.rec.i = @ + 1, !.rec.agentsDone = @ \cup {id}]
  /\ UNCHANGED <<now, logs, tokens, snapshots, signal, metric, comments,
                 reactions, ethPriceCache>>

\* after the last agent the posts are read
TickRecalcReadLogs(list) ==
  /\ job.pc = "returned" /\ job.rec.pc = "agents" /\ job.rec.i > Len(job.rec.list)
  /\ job' = [job EXCEPT !.rec.pc = "logs", !.rec.list = list, !.rec.i = 1]
  /\ UNCHANGED <<now, agents, logs, tokens, snapshots, signal, metric,
                 comments, reactions, ethPriceCache>>

\* the quality score of the next post is computed and written
TickRecalcLog ==
  /\ job.pc = "returned" /\ job.rec.pc = "logs" /\ job.rec.i <= Len(job.rec.list)
  /\ LET id == job.rec.list[job.rec.i]
     IN /\ logs' = [logs EXCEPT ![id].quality_score = calculateQualityScore(id)]
        /\ job' = [job EXCEPT !.rec.i = @ + 1, !.rec.logsDone = @ \cup {id}]
  /\ UNCHANGED <<now, agents, tokens, snapshots, signal, metric, comments,
                 reactions, ethPriceCache>>

\* an await of recalculateAllAnalytics throws: its promise rejects
TickRecalcThrows ==
  /\ job.pc = "returned" /\ job.rec.pc \in {"agents", "logs"}
  /\ job.rec.i <= Len(job.rec.list)
  /\ job' = [job EXCEPT !.rec.pc = "rejected"]
  /\ UNCHANGED <<now, agents, logs, tokens, snapshots, signal, metric,
                 comments, reactions, ethPriceCache>>

\* recalculateAllAnalytics returns
TickRecalcDone ==
  /\ job.pc = "returned" /\ job.rec.pc = "logs" /\ job.rec.i > Len(job.rec.list)
  /\ job' = [job EXCEPT !.rec.pc = "done"]
  /\ UNCHANGED <<now, agents, logs, tokens, snapshots, signal, metric,
                 comments, reactions, ethPriceCache>>

NextTick ==
  \/ \E minute0, hour0 \in BOOLEAN, list \in Orders(tokens) :
       TickStart(minute0, hour0, list)
  \/ TickSnapshot
  \/ TickSnapshotThrows
  \/ TickLaunch
  \/ \E list \in Orders({a \in DOMAIN agents : agents[a].erc8004_agent_id}) :
       TickSignalsRead(list)
  \/ TickSignal
  \/ TickSignalThrows
  \/ TickSignalsDone
  \/ \E list \in Orders(DOMAIN agents) : TickRecalcRead(list)
  \/ TickRecalcAgent
  \/ \E list \in Orders(1..Len(logs)) : TickRecalcReadLogs(list)
  \/ TickRecalcLog
  \/ TickRecalcThrows
  \/ TickRecalcDone

SpecTick == InitTick /\ [][NextTick]_vars

(***************************************************************************)
(* Claims about the order of the jobs within one tick                      *)
(***************************************************************************)
\* the signal task of the tick has read or is about to
SignalsStarted == job.pc = "returned" /\ job.sig.pc # "off"

\* the agents whose score the signal task of the tick has calculated
ScoredInTick ==
  IF job.pc = "returned" /\ job.sig.pc \in {"run", "done"}
    THEN DOMAIN job.sig.used ELSE {}

\* the rows the tick's refresh wrote
WrittenInTick == IF job.pc = "idle" THEN {} ELSE snapshots \ job.before

\* the signal task exists only once the loop is over, and from then on no
\* snapshot is written
SnapshotsBeforeSignals ==
  /\ SignalsStarted => job.i > Len(job.list)
  /\ SignalsStarted => snapshots' = snapshots

\* the token score of a is that of a row this tick wrote
UsesTickSnapshot(a) ==
  \E s \in WrittenInTick :
    /\ \E t \in PrimaryCandidates(a) : t.id = s.token_id
    /\ job.sig.used[a].tokenScore = snapshotScore(s)

\* C25: in a scheduled tick that runs both the snapshot refresh and the
\* signal recompute, the recompute starts reading only after every snapshot
\* write of that tick has completed, so each token score uses the snapshot
\* written in the same tick.
C25_ScoresUseTickSnapshots ==
  /\ [](\A a \in ScoredInTick : UsesTickSnapshot(a))
  /\ [][SnapshotsBeforeSignals]_vars

\* C25 as amended: the recompute starts reading only after every snapshot
\* write of the tick has completed, so the token score of an agent whose
\* token's refresh did not fail in the tick uses the snapshot written in
\* the tick.
C25_ScoresUseTickSnapshotsUnlessFailed ==
  /\ [](\A a \in ScoredInTick :
          (\A t \in PrimaryCandidates(a) : t.id \notin job.failed)
            => UsesTickSnapshot(a))
  /\ [][SnapshotsBeforeSignals]_vars

\* the tick refreshed one token and failed on the other, and the signal
\* task calculated the scores of both agents
C25_Witness ==
  /\ job.pc = "returned" /\ job.sig.pc = "done"
  /\ Cardinality(job.failed) = 1 /\ Cardinality(WrittenInTick) = 1
  /\ ScoredInTick = AgentIds

\* the tick is the daily one
DailyTick == job.pc = "returned" /\ job.minute0 /\ job.hour0

\* C26: in the daily tick, every agent's social and build scores are
\* computed from values written by that same tick's analytics recompute,
\* never from the previous day's.
C26_ScoresUseTickAnalytics ==
  DailyTick =>
    \A a \in ScoredInTick :
      job.sig.used[a].metricsWritten /\ job.sig.used[a].qualityWritten

\* C26, what holds: the analytics task is started only together with the
\* signal task, which is started first, and not before the snapshot loop
\* is over.
C26_AnalyticsStartsWithSignals ==
  (job.pc # "idle" /\ job.rec.pc # "off") =>
    (job.sig.pc # "off" /\ job.i > Len(job.list))

(***************************************************************************)
(* Specification SpecPacing: one run of the snapshot-refresh loop with     *)
(* the clock in milliseconds.  job.inflight holds the requests that have   *)
(* been sent and not yet answered, job.times the moments of each token's   *)
(* processing.                                                             *)
(***************************************************************************)
\* setTimeout(r, 5000) between two tokens
PacingDelay == 5000

\* setTimeout(r, 1000) before the holder request
StaggerDelay == 1000

\* how late a timer fires
TimerSamples == {0, 7}

\* how long a request takes
LatencySamples == {20, 6000}

NotYet == -1

\* the holder request is sent without awaiting batch 1
holderMayStartEarly(j) == j.pc \in {"batch1", "stagger"}

\* line 498: await Promise.all(batch1) has resolved
holderMayStart(j) == j.pc = "stagger"

InitPacing ==
  /\ now = 0
  /\ agents = [x \in AgentIds |-> OtherAgent]
  /\ logs = <<>>
  /\ tokens = {TokenRow("t1", "a1", TRUE, "uniswap_v4"),
               TokenRow("t2", "a2", TRUE, "none")}
  /\ snapshots = {}
  /\ signal = NoSignal
  /\ job = NoJob
  /\ metric = NoMetric
  /\ comments = {}
  /\ reactions = {}
  /\ ethPriceCache = NoCache

\* getAllLinkedTokens returns
PacingStart(list) ==
  /\ job.pc = "idle"
  /\ job' = [pc |-> "next", list |-> list, i |-> 1, inflight |-> {},
             times |-> <<>>, failed |-> {}]
  /\ UNCHANGED <<now, agents, logs, tokens, snapshots, signal, metric,
                 comments, reactions, ethPriceCache>>

\* part_011 lines 942-944, tokens.ts lines 489-498: after the pacing delay
\* (none before the first token) recordTokenSnapshot is called and the
\* requests of batch 1 are sent
PacingBegin(late) ==
  /\ job.pc = "next" /\ job.i <= Len(job.list)
  /\ LET token == job.list[job.i]
         at == now + (IF job.i > 1 THEN PacingDelay + late ELSE 0)
         calls == {batch1Calls(token)[k] : k \in 1..Len(batch1Calls(token))}
     IN /\ now' = at
        /\ job' = [job EXCEPT
                     !.pc = "batch1",
                     !.inflight = {<<token.id, c>> : c \in calls},
                     !.times = Append(@, [token |-> token.id, begin |-> at,
                                          batch1Done |-> NotYet,
                                          holderAt |-> NotYet, end |-> NotYet])]
  /\ UNCHANGED <<agents, logs, tokens, snapshots, signal, metric, comments,
                 reactions, ethPriceCache>>

\* a request of batch 1 is answered or fails (the adapters catch)
PacingSettle(call, latency) ==
  /\ job.pc = "batch1"
  /\ <<job.list[job.i].id, call>> \in job.inflight
  /\ now' = now + latency
  /\ LET rest == job.inflight \ {<<job.list[job.i].id, call>>}
     IN job' = IF rest = {}
                 THEN [job EXCEPT !.inflight = rest, !.pc = "stagger",
                                  !.times[job.i].batch1Done = now']
               ELSE [job EXCEPT !.inflight = rest]
  /\ UNCHANGED <<agents, logs, tokens, snapshots, signal, metric, comments,
                 reactions, ethPriceCache>>

\* lines 501-502: after the stagger delay the holder request is sent
PacingHolderStart(late) ==
  /\ holderMayStart(job)
  /\ now' = now + StaggerDelay + late
  /\ job' = [job EXCEPT !.pc = "holders",
                        !.inflight = @ \cup {<<job.list[job.i].id, "holders">>},
                        !.times[job.i].holderAt = now']
  /\ UNCHANGED <<agents, logs, tokens, snapshots, signal, metric, comments,
                 reactions, ethPriceCache>>

\* the holder request is answered or fails
PacingHolderSettle(latency) ==
  /\ job.pc = "holders"
  /\ now' = now + latency
  /\ job' = [job EXCEPT !.pc = "insert",
                        !.inflight = @ \ {<<job.list[job.i].id, "holders">>}]
  /\ UNCHANGED <<agents, logs, tokens, snapshots, signal, metric, comments,
                 reactions, ethPriceCache>>

\* lines 555-574: carry-forward and insert; the loop takes the next token
PacingInsert ==
  /\ job.pc = "insert"
  /\ \E fetched \in JobFetchSamples :
       \E data \in carryForward(fetched, job.list[job.i].id) :
         snapshots' = snapshots \cup {snapshotOf(job.list[job.i].id, data)}
  /\ job' = [job EXCEPT !.pc = "next", !.i = @ + 1, !.times[job.i].end = now]
  /\ UNCHANGED <<now, agents, logs, tokens, signal, metric, comments,
                 reactions, ethPriceCache>>

\* a database call of recordTokenSnapshot throws: the loop's catch
PacingThrows ==
  /\ job.pc = "insert"
  /\ job' = [job EXCEPT !.pc = "next", !.i = @ + 1, !.times[job.i].end = now,
                        !.failed = @ \cup {job.list[job.i].id}]
  /\ UNCHANGED <<now, agents, logs, tokens, snapshots, signal, metric,
                 comments, reactions, ethPriceCache>>

\* the loop is over
PacingFinish ==
  /\ job.pc = "next" /\ job.i > Len(job.list)
  /\ job' = [job EXCEPT !.pc = "done"]
  /\ UNCHANGED <<now, agents, logs, tokens, snapshots, signal, metric,
                 comments, reactions, ethPriceCache>>

NextPacing ==
  \/ \E list \in Orders(tokens) : PacingStart(list)
  \/ \E late \in TimerSamples : PacingBegin(late)
  \/ \E call \in {"v4", "pools"}, latency \in LatencySamples :
       PacingSettle(call, latency)
  \/ \E late \in TimerSamples : PacingHolderStart(late)
  \/ \E latency \in LatencySamples : PacingHolderSettle(latency)
  \/ PacingInsert
  \/ PacingThrows
  \/ PacingFinish

SpecPacing == InitPacing /\ [][NextPacing]_vars

(***************************************************************************)
(* Claims about the pacing of the refresh loop                             *)
(***************************************************************************)
PacingTimes == IF job.pc = "idle" THEN <<>> ELSE job.times

PacingInflight == IF job.pc = "idle" THEN {} ELSE job.inflight

\* C22: within one run of the snapshot-refresh job the tokens are
\* processed strictly one after the other with a pacing delay in between:
\* at most one token has aggregator or on-chain calls in flight at any
\* moment, and for a token the holder-count request is issued only after
\* its on-chain and pools requests have completed and the stagger delay
\* has elapsed.
C22_SequentialAndStaggered ==
  /\ Cardinality({p[1] : p \in PacingInflight}) <= 1
  /\ \A p \in PacingInflight :
       p[2] = "holders" => PacingInflight = {p}
  /\ \A k \in 1..Len(PacingTimes) :
       LET e == PacingTimes[k]
       IN /\ k > 1 => /\ PacingTimes[k - 1].end # NotYet
                      /\ e.begin >= PacingTimes[k - 1].end + PacingDelay
          /\ e.holderAt # NotYet =>
               /\ e.batch1Done # NotYet
               /\ e.holderAt >= e.batch1Done + StaggerDelay

\* the second token's requests were sent after the first token's slow
\* processing ended, and its holder request is in flight
C22_Witness ==
  /\ Len(PacingTimes) = 2
  /\ PacingTimes[1].end > PacingDelay
  /\ \E p \in PacingInflight : p[2] = "holders" /\ p[1] = PacingTimes[2].token

(***************************************************************************)
(* Specification SpecOverlapSignals: two runs of updateAllSignalScores     *)
(* that may overlap (the hourly tick and POST /api/cron/signals), with     *)
(* nothing else written.  job maps each run to its position; a score is    *)
(* calculated in one step and written in the next.                         *)
(***************************************************************************)
SignalRuns == {"r1", "r2"}

\* update({ signal_score: score }).eq('id', id) adding to the stored score
writeScoreAdding(rows, id, score) ==
  [rows EXCEPT ![id].signal_score = RatAdd(@, score)]

\* update({ signal_score: score }).eq('id', id)
writeScore(rows, id, score) == [rows EXCEPT ![id].signal_score = score]

InitOverlapSignals ==
  /\ now = JobStart
  /\ agents = [x \in AgentIds |->
                 [AgentRow(TRUE, x = "a1", FALSE, FALSE, Rat(3, 100), R(10), R(20))
                    EXCEPT !.signal_score = R(50)]]
  /\ logs = <<LogRow("a1", JobStart - 3, R(80), 10, 1, 0, 0, 0, 0, 0)>>
  /\ \E prim \in JobTokenSamples :
       tokens = {TokenRow("t1", "a1", prim, "uniswap_v4"),
                 TokenRow("t2", "a1", FALSE, "none")}
  /\ snapshots = {SnapshotRow("t1", 1, 2, 5000000, 500, 10000, 50000, 0),
                  SnapshotRow("t2", 2, 9, 200000000, 5000, 90000, 900000, 1)}
  /\ signal = NoSignal
  /\ job = [r \in SignalRuns |-> NoJob]
  /\ metric = [kind |-> "none", before |-> signalScores, overlapped |-> FALSE]
  /\ comments = {}
  /\ reactions = {}
  /\ ethPriceCache = NoCache

\* run r starts: the agents with a linked identity are read
OverlapStartSignals(r, list) ==
  /\ job[r].pc = "idle"
  /\ job' = [job EXCEPT ![r] = [pc |-> "calculate", list |-> list, i |-> 1,
                                attempted |-> <<>>, failed |-> {}]]
  /\ metric' = [metric EXCEPT !.overlapped =
                  @ \/ \E o \in SignalRuns : job[o].pc \in {"calculate", "write"}]
  /\ UNCHANGED <<now, agents, logs, tokens, snapshots, signal, comments,
                 reactions, ethPriceCache>>

\* line 204: calculateSignalScore returns for the next agent of run r
OverlapCalculate(r) ==
  /\ job[r].pc = "calculate" /\ job[r].i <= Len(job[r].list)
  /\ \E res \in calculateSignalScore(job[r].list[job[r].i]) :
       job' = [job EXCEPT ![r] = [@ EXCEPT !.pc = "write"] @@ [score |-> res.score]]
  /\ UNCHANGED <<now, agents, logs, tokens, snapshots, signal, metric,
                 comments, reactions, ethPriceCache>>

\* lines 206-209: the score is written
OverlapWrite(r) ==
  /\ job[r].pc = "write"
  /\ LET id == job[r].list[job[r].i]
     IN /\ agents' = writeScore(agents, id, job[r].score)
        /\ job' = [job EXCEPT ![r] =
                     [pc |-> "calculate", list |-> job[r].list, i |-> job[r].i + 1,
                      attempted |-> Append(job[r].attempted, id),
                      failed |-> job[r].failed]]
  /\ UNCHANGED <<now, logs, tokens, snapshots, signal, metric, comments,
                 reactions, ethPriceCache>>

\* lines 212-214: calculateSignalScore or the update throws
OverlapThrows(r) ==
  /\ job[r].pc \in {"calculate", "write"} /\ job[r].i <= Len(job[r].list)
  /\ LET id == job[r].list[job[r].i]
     IN job' = [job EXCEPT ![r] =
                  [pc |-> "calculate", list |-> job[r].list, i |-> job[r].i + 1,
                   attempted |-> Append(job[r].attempted, id),
                   failed |-> job[r].failed \cup {id}]]
  /\ UNCHANGED <<now, agents, logs, tokens, snapshots, signal, metric,
                 comments, reactions, ethPriceCache>>

\* line 217: run r returns
OverlapFinish(r) ==
  /\ job[r].pc = "calculate" /\ job[r].i > Len(job[r].list)
  /\ job' = [job EXCEPT ![r] = [@ EXCEPT !.pc = "done"]]
  /\ UNCHANGED <<now, agents, logs, tokens, snapshots, signal, metric,
                 comments, reactions, ethPriceCache>>

NextOverlapSignals ==
  \/ \E r \in SignalRuns,
        list \in Orders({a \in DOMAIN agents : agents[a].erc8004_agent_id}) :
       OverlapStartSignals(r, list)
  \/ \E r \in SignalRuns : OverlapCalculate(r)
  \/ \E r \in SignalRuns : OverlapWrite(r)
  \/ \E r \in SignalRuns : OverlapThrows(r)
  \/ \E r \in SignalRuns : OverlapFinish(r)

SpecOverlapSignals == InitOverlapSignals /\ [][NextOverlapSignals]_vars

(***************************************************************************)
(* Claims about overlapping runs of updateAllSignalScores                  *)
(***************************************************************************)
BothRunsDone == \A r \in SignalRuns : job[r].pc = "done"

\* the scores a single run can leave agent a with: the one it calculates
\* from the stored rows, or the score of before when its item failed
SingleRunScores(a) ==
  {res.score : res \in calculateSignalScore(a)} \cup {metric.before[a]}

\* the scores a single run that does not fail on a leaves it with
SingleRunScoresNoFailure(a) == {res.score : res \in calculateSignalScore(a)}

\* some run wrote the score of a
WrittenBySome(a) ==
  \E r \in SignalRuns : \E k \in 1..Len(job[r].attempted) :
    job[r].attempted[k] = a /\ a \notin job[r].failed

\* C23: two overlapping runs of updateAllSignalScores, with no other
\* writes, leave every identity-verified agent with the same signal_score
\* a single run leaves: the score the run calculates from the stored rows
\* when a run wrote it, the score of before when both runs failed on it.
C23_OverlapLeavesSingleRunScores ==
  BothRunsDone =>
    \A a \in DOMAIN agents :
      agents[a].signal_score \in
        (IF WrittenBySome(a) THEN SingleRunScoresNoFailure(a)
         ELSE {metric.before[a]})

\* the two runs overlapped, both wrote the score of a1 and it changed
C23_Witness ==
  /\ BothRunsDone /\ metric.overlapped
  /\ \A r \in SignalRuns : "a1" \notin job[r].failed
  /\ agents["a1"].signal_score # metric.before["a1"]

(***************************************************************************)
(* Specification SpecOverlap: calls of recordTokenSnapshot for one token   *)
(* that may overlap: the initial snapshot of linkToken, the scheduled      *)
(* refresh and POST /api/cron/snapshots run on their own.  job maps each   *)
(* caller to the position of its call.                                     *)
(***************************************************************************)
\* the largest number of calls of recordTokenSnapshot
MaxOverlapCalls == 3

SnapshotCallers == {"link", "cron"}

OverlapFetchSamples ==
  {TokenData(0, 0, 0, 0, 0, 0), TokenData(3, 20000000, 800, 10000, 50000, -5)}

InitOverlap ==
  /\ now = 1
  /\ agents = [x \in AgentIds |-> OtherAgent]
  /\ logs = <<>>
  /\ tokens = {TokenRow("t1", "a1", TRUE, "none")}
  /\ snapshots = {}
  /\ signal = NoSignal
  /\ job = [c \in SnapshotCallers |-> NoJob]
  /\ metric = [kind |-> "none", calls |-> 0]
  /\ comments = {}
  /\ reactions = {}
  /\ ethPriceCache = NoCache

\* recordTokenSnapshot is called by caller c: fetchTokenData is awaited
OverlapCall(c) ==
  /\ job[c].pc = "idle"
  /\ metric.calls + Cardinality({k \in SnapshotCallers : job[k].pc # "idle"})
       < MaxOverlapCalls
  /\ job' = [job EXCEPT ![c] = [pc |-> "fetch"]]
  /\ UNCHANGED <<now, agents, logs, tokens, snapshots, signal, metric,
                 comments, reactions, ethPriceCache>>

\* line 552: fetchTokenData returns data
OverlapFetched(c, data) ==
  /\ job[c].pc = "fetch"
  /\ job' = [job EXCEPT ![c] =
               [pc |-> IF data.holders = 0 THEN "carry" ELSE "insert",
                data |-> data, seen |-> snapshots]]
  /\ UNCHANGED <<now, agents, logs, tokens, snapshots, signal, metric,
                 comments, reactions, ethPriceCache>>

\* lines 555-564: the query for the last positive holder count returns
OverlapCarry(c) ==
  /\ job[c].pc = "carry"
  /\ \E d \in carryForward(job[c].data, "t1") :
       job' = [job EXCEPT ![c] = [pc |-> "insert", data |-> d, seen |-> snapshots]]
  /\ UNCHANGED <<now, agents, logs, tokens, snapshots, signal, metric,
                 comments, reactions, ethPriceCache>>

\* lines 566-574: the row is inserted
OverlapInsert(c) ==
  /\ job[c].pc = "insert"
  /\ snapshots' = snapshots \cup {snapshotOf("t1", job[c].data)}
  /\ metric' = [kind |-> "insert", calls |-> metric.calls + 1, caller |-> c,
                row |-> snapshotOf("t1", job[c].data), seen |-> job[c].seen,
                before |-> snapshots]
  /\ job' = [job EXCEPT ![c] = NoJob]
  /\ UNCHANGED <<now, agents, logs, tokens, signal, comments, reactions,
                 ethPriceCache>>

NextOverlap ==
  \/ \E c \in SnapshotCallers : OverlapCall(c)
  \/ \E c \in SnapshotCallers, data \in OverlapFetchSamples : OverlapFetched(c, data)
  \/ \E c \in SnapshotCallers : OverlapCarry(c)
  \/ \E c \in SnapshotCallers : OverlapInsert(c)

SpecOverlap == InitOverlap /\ [][NextOverlap]_vars

(***************************************************************************)
(* Claims about the holder count over the snapshots of a token             *)
(***************************************************************************)
\* C30: once a token has a snapshot with a positive holder count, every
\* snapshot inserted for it later has a positive holder count.
C30_HoldersStayPositive ==
  \A s, r \in snapshots :
    (s.token_id = r.token_id /\ s.holders > 0 /\ s.snapshot_at < r.snapshot_at)
      => r.holders > 0

\* C30, the part that holds: a call inserts a positive holder count when
\* the token had a snapshot with a positive count at the time the call's
\* carry-forward query ran.
C30_HoldersCarriedFromRowsSeen ==
  metric.kind = "insert" =>
    ((\E s \in metric.seen : s.holders > 0) => metric.row.holders > 0)
====
